---------------------------- MODULE Spec2Model ----------------------------
(***************************************************************************)
(* Disk scheduling simulator: the six scheduling policies                  *)
(* (Javascript/Algorithms), the StateManager that materialises a visit     *)
(* sequence into a replayable step timeline (Javascript/state-manager.js)  *)
(* and the Controller that drives generation and playback                  *)
(* (Javascript/controller.js).                                             *)
(*                                                                         *)
(* JavaScript values are represented as follows.                           *)
(*   - an array is a sequence;                                             *)
(*   - a value that may be null / undefined / NaN is a sequence of length  *)
(*     0 (null, undefined, NaN) or 1 (the value): None and Some(v);        *)
(*   - a text (a DOM input value) is a sequence of one-character strings.  *)
(***************************************************************************)
EXTENDS Integers, Sequences, FiniteSets, TLC

(***************************************************************************)
(* Bounds of the model.                                                    *)
(***************************************************************************)
\* Largest track number of the policy-level specification (SpecPolicy).
MaxTrackP == 3
\* Longest request array handed to a policy constructor in SpecPolicy.
MaxReqP == 3

(***************************************************************************)
(* Generic array helpers (the Array.prototype methods the code uses).      *)
(***************************************************************************)
None == <<>>
Some(v) == <<v>>

\* The one element of a one-element set: with a bound variable, names a value
\* that is computed once.
The(S) == CHOOSE x \in S : TRUE

Abs(x) == IF x < 0 THEN -x ELSE x
Min(a, b) == IF a < b THEN a ELSE b
Max(a, b) == IF a > b THEN a ELSE b

Last(s) == s[Len(s)]

\* Array.prototype.includes
Includes(s, v) == \E i \in 1..Len(s) : s[i] = v

\* Array.prototype.indexOf (1-based; 0 when absent)
IndexOf(s, v) ==
    IF Includes(s, v) THEN CHOOSE i \in 1..Len(s) : s[i] = v /\ \A j \in 1..(i-1) : s[j] # v
    ELSE 0

\* Array.prototype.splice(i, 1)
RemoveAt(s, i) == [j \in 1..(Len(s)-1) |-> IF j < i THEN s[j] ELSE s[j+1]]

\* Array.prototype.reverse
Reverse(s) == [i \in 1..Len(s) |-> s[Len(s) + 1 - i]]

\* Array.prototype.shift: the array without its first element
Shift(s) == IF Len(s) = 0 THEN s ELSE Tail(s)

RECURSIVE InsertSorted(_, _, _)
\* v inserted into the sorted array s, after the elements that do not come
\* after it under the comparator (asc: a - b, otherwise b - a)
InsertSorted(s, v, asc) ==
    IF Len(s) = 0 THEN <<v>>
    ELSE IF (IF asc THEN v < Head(s) ELSE v > Head(s))
         THEN <<v>> \o s
         ELSE <<Head(s)>> \o InsertSorted(Tail(s), v, asc)

RECURSIVE SortBy(_, _)
\* Array.prototype.sort with comparator (a, b) => a - b (asc) or b - a
SortBy(s, asc) ==
    IF Len(s) = 0 THEN <<>>
    ELSE InsertSorted(SortBy(SubSeq(s, 1, Len(s) - 1), asc), Last(s), asc)

\* The set of the entries of an array
Elems(s) == {s[i] : i \in 1..Len(s)}

\* No value occurs twice in the array
NoDup(s) == \A i, j \in 1..Len(s) : s[i] = s[j] => i = j

(***************************************************************************)
(* Algorithms/algorithm-base.js: AlgorithmBase.  An instance `self` is the *)
(* record [initialPosition, maxTrack, requests, direction].                *)
(***************************************************************************)
\* Mutant of DefaultDirection: an omitted direction stands for 'high'.
DefaultDirectionHigh(direction) == IF direction = None THEN "high" ELSE direction[1]

\* The constructor's default parameter: direction = 'low' when absent.
DefaultDirection(direction) == IF direction = None THEN "low" ELSE direction[1]

\* The field assignments of the constructor (requests is cloned).
NewInstance(initialPosition, maxTrack, requests, direction) ==
    [initialPosition |-> initialPosition,
     maxTrack        |-> maxTrack,
     requests        |-> requests,
     direction       |-> DefaultDirection(direction)]

\* Mutant of validateInput: the loop over the requests is missing.
validateInputNoLoop(self) ==
    /\ ~(Len(self.requests) = 0)
    /\ ~(self.initialPosition < 0 \/ self.initialPosition > self.maxTrack)

\* validateInput: TRUE when no check throws.
validateInput(self) ==
    /\ ~(Len(self.requests) = 0)
    /\ ~(self.initialPosition < 0 \/ self.initialPosition > self.maxTrack)
    /\ \A i \in 1..Len(self.requests) :
          ~(self.requests[i] < 0 \/ self.requests[i] > self.maxTrack)

RECURSIVE SumMoves(_, _)
SumMoves(sequence, i) ==
    IF i < 2 THEN 0
    ELSE SumMoves(sequence, i - 1) + Abs(sequence[i] - sequence[i-1])

\* calculateTotalMovement
calculateTotalMovement(sequence) == SumMoves(sequence, Len(sequence))

LessThan(s, pos) == SelectSeq(s, LAMBDA req : req < pos)
LessOrEqual(s, pos) == SelectSeq(s, LAMBDA req : req <= pos)
GreaterThan(s, pos) == SelectSeq(s, LAMBDA req : req > pos)
GreaterOrEqual(s, pos) == SelectSeq(s, LAMBDA req : req >= pos)

\* The partition helpers, called with sorted = true.
getRequestsLessThan(self, currentPos) == SortBy(LessThan(self.requests, currentPos), FALSE)
getRequestsGreaterOrEqual(self, currentPos) == SortBy(GreaterOrEqual(self.requests, currentPos), TRUE)

\* Mutant of getRequestsGreaterThan: the filtered requests are left unsorted.
getRequestsGreaterThanUnsorted(self, currentPos) == GreaterThan(self.requests, currentPos)

getRequestsGreaterThan(self, currentPos) == SortBy(GreaterThan(self.requests, currentPos), TRUE)

\* Mutant of getRequestsLessOrEqual: the pivot itself is left out.
getRequestsLessOrEqualStrict(self, currentPos) == getRequestsLessThan(self, currentPos)

getRequestsLessOrEqual(self, currentPos) == SortBy(LessOrEqual(self.requests, currentPos), FALSE)

RECURSIVE ReduceClosest(_, _, _, _)
\* The reduce of findClosestRequest from index i on, with accumulator closest.
ReduceClosest(available, currentPos, closest, i) ==
    IF i > Len(available) THEN closest
    ELSE ReduceClosest(available, currentPos,
                       IF Abs(available[i] - currentPos) < Abs(closest - currentPos)
                       THEN available[i] ELSE closest,
                       i + 1)

\* Mutant of findClosestRequest: among equidistant requests the last one wins.
findClosestRequestLast(currentPos, available) ==
    available[CHOOSE i \in 1..Len(available) :
                  /\ \A j \in 1..Len(available) :
                        Abs(available[i] - currentPos) <= Abs(available[j] - currentPos)
                  /\ \A j \in (i+1)..Len(available) :
                        Abs(available[i] - currentPos) < Abs(available[j] - currentPos)]

\* findClosestRequest(currentPos, available) on a non-empty list.
findClosestRequest(currentPos, available) ==
    ReduceClosest(available, currentPos, available[1], 2)

\* initializeSequence
initializeSequence(self) == <<self.initialPosition>>

\* verifySequence: the requests found in the sequence, as a set, are as many
\* as the requests.
verifySequence(self, sequence) ==
    Cardinality(Elems(SelectSeq(sequence, LAMBDA pos : Includes(self.requests, pos))))
        = Len(self.requests)

(***************************************************************************)
(* The six policies: execute() of each subclass.                           *)
(***************************************************************************)
\* Mutant of FCFSexecute: the sequence does not start with the initial
\* position.
FCFSexecuteNoStart(self) == self.requests

\* Mutant of FCFSexecute: the requests are served in ascending order.
FCFSexecuteSorted(self) == initializeSequence(self) \o SortBy(self.requests, TRUE)

\* Algorithms/fcfs.js
FCFSexecute(self) == initializeSequence(self) \o self.requests

RECURSIVE SSTFloop(_, _, _)
\* The while loop of SSTF.execute.
SSTFloop(sequence, remaining, currentPos) ==
    IF Len(remaining) > 0
    THEN LET closest == findClosestRequest(currentPos, remaining)
         IN  SSTFloop(Append(sequence, closest),
                      RemoveAt(remaining, IndexOf(remaining, closest)),
                      closest)
    ELSE sequence

\* cloneRequests(): a new array holding the elements of this.requests.
cloneRequests(self) == self.requests

\* Mutant of SSTFexecute: the requests are served as they arrived.
SSTFexecuteArrival(self) == FCFSexecute(self)

\* Mutant of SSTFexecute: with hint 'high' the requests are swept upwards.
SSTFexecuteHinted(self) ==
    IF self.direction = "high"
    THEN initializeSequence(self) \o SortBy(self.requests, TRUE)
    ELSE SSTFloop(initializeSequence(self), cloneRequests(self), self.initialPosition)

\* Algorithms/algorithm-base.js (SSTF): the loop drains the clone.
SSTFexecute(self) == SSTFloop(initializeSequence(self), cloneRequests(self), self.initialPosition)

\* Mutant of DropInitial: the initial position is left in the list.
DropInitialKept(s, initialPosition) == s

\* rightRequests.shift() / leftRequests.shift() when the first element is the
\* initial position (an empty array has no first element).
DropInitial(s, initialPosition) ==
    IF Len(s) > 0 /\ s[1] = initialPosition THEN Shift(s) ELSE s

\* Mutant of SCANexecute: the head turns back a second time for the requests
\* nearest to the initial position on the far side.
SCANexecuteZigzag(self) ==
    LET leftRequests == getRequestsLessThan(self, self.initialPosition)
        rightRequests == getRequestsGreaterThan(self, self.initialPosition)
    IN  IF self.direction = "high"
        THEN (initializeSequence(self) \o rightRequests) \o Reverse(leftRequests)
        ELSE (initializeSequence(self) \o leftRequests) \o Reverse(rightRequests)

\* Algorithms/clook.js (SCAN)
SCANexecute(self) ==
    LET sequence == initializeSequence(self)
        leftRequests == DropInitial(getRequestsLessOrEqual(self, self.initialPosition), self.initialPosition)
        rightRequests == DropInitial(getRequestsGreaterOrEqual(self, self.initialPosition), self.initialPosition)
    IN  IF self.direction = "high"
        THEN LET s1 == sequence \o rightRequests
                 s2 == IF Len(leftRequests) > 0 /\ Last(s1) # self.maxTrack
                       THEN Append(s1, self.maxTrack) ELSE s1
             IN  s2 \o leftRequests
        ELSE LET s1 == sequence \o leftRequests
                 s2 == IF Len(rightRequests) > 0 /\ Last(s1) # 0
                       THEN Append(s1, 0) ELSE s1
             IN  s2 \o rightRequests

\* Mutant of CSCANexecute: the head sweeps back instead of wrapping.
CSCANexecuteSweepBack(self) == SCANexecute(self)

\* Algorithms/cscan.js (C-SCAN)
CSCANexecute(self) ==
    LET sequence == initializeSequence(self)
    IN  IF self.direction = "high"
        THEN LET rightRequests == DropInitial(getRequestsGreaterOrEqual(self, self.initialPosition), self.initialPosition)
                 leftRequests == Reverse(getRequestsLessThan(self, self.initialPosition))
                 s1 == sequence \o rightRequests
             IN  IF Len(leftRequests) > 0
                 THEN LET s2 == IF Last(s1) # self.maxTrack THEN Append(s1, self.maxTrack) ELSE s1
                      IN  Append(s2, 0) \o leftRequests
                 ELSE s1
        ELSE LET leftRequests == DropInitial(getRequestsLessOrEqual(self, self.initialPosition), self.initialPosition)
                 rightRequests == Reverse(getRequestsGreaterThan(self, self.initialPosition))
                 s1 == sequence \o leftRequests
             IN  IF Len(rightRequests) > 0
                 THEN LET s2 == IF Last(s1) # 0 THEN Append(s1, 0) ELSE s1
                      IN  Append(s2, self.maxTrack) \o rightRequests
                 ELSE s1

\* Mutant of LOOKexecute: the requests are visited as they arrived, unsorted.
LOOKexecuteArrival(self) == FCFSexecute(self)

\* Mutant of LOOKexecute: the head travels on to the boundary before turning.
LOOKexecuteToBoundary(self) == SCANexecute(self)

\* Algorithms/clook.js (LOOK)
LOOKexecute(self) ==
    LET sequence == initializeSequence(self)
        leftRequests == getRequestsLessThan(self, self.initialPosition)
        rightRequests == getRequestsGreaterThan(self, self.initialPosition)
    IN  IF self.direction = "high"
        THEN (sequence \o rightRequests) \o leftRequests
        ELSE (sequence \o leftRequests) \o rightRequests

\* Mutant of CLOOKexecute: the head wraps by way of the two boundaries.
CLOOKexecuteByBoundaries(self) == CSCANexecute(self)

\* Algorithms/clook.js (C-LOOK)
CLOOKexecute(self) ==
    LET sequence == initializeSequence(self)
    IN  IF self.direction = "high"
        THEN LET rightRequests == DropInitial(getRequestsGreaterOrEqual(self, self.initialPosition), self.initialPosition)
                 leftRequests == Reverse(getRequestsLessThan(self, self.initialPosition))
             IN  (sequence \o rightRequests) \o leftRequests
        ELSE LET leftRequests == DropInitial(getRequestsLessOrEqual(self, self.initialPosition), self.initialPosition)
                 rightRequests == Reverse(getRequestsGreaterThan(self, self.initialPosition))
             IN  (sequence \o leftRequests) \o rightRequests

\* Mutant of executeLeaves: a partition helper sorts this.requests in place.
executeSorts(name, self) == [self EXCEPT !.requests = SortBy(self.requests, FALSE)]

\* Mutant of executeLeaves: the loop drains this.requests itself.
executeDrains(name, self) == [self EXCEPT !.requests = <<>>]

\* The object once execute() has returned.  No execute() assigns a field of
\* `this`; every array it sorts, shifts, reverses or splices is a new one made
\* by filter() or by [...this.requests].
executeLeaves(name, self) == self

\* The names under which main.js registers the classes with the controller.
Policies == {"fcfs", "sstf", "scan", "cscan", "look", "clook"}

\* execute() of the class registered under `name`.
execute(name, self) ==
    CASE name = "fcfs"  -> FCFSexecute(self)
      [] name = "sstf"  -> SSTFexecute(self)
      [] name = "scan"  -> SCANexecute(self)
      [] name = "cscan" -> CSCANexecute(self)
      [] name = "look"  -> LOOKexecute(self)
      [] name = "clook" -> CLOOKexecute(self)

(***************************************************************************)
(* Texts and parseInt.  A text is a sequence of one-character strings.     *)
(***************************************************************************)
DigitChars == <<"0", "1", "2", "3", "4", "5", "6", "7", "8", "9">>

IsDigit(c) == \E d \in 1..10 : DigitChars[d] = c

DigitValue(c) == (CHOOSE d \in 1..10 : DigitChars[d] = c) - 1

RECURSIVE TrimLeft(_)
\* The text without its leading white space.
TrimLeft(text) ==
    IF Len(text) > 0 /\ Head(text) = " " THEN TrimLeft(Tail(text)) ELSE text

RECURSIVE DigitsValue(_, _)
\* The value of the longest prefix of digits of text, acc being the value of
\* the digits read so far.
DigitsValue(text, acc) ==
    IF Len(text) > 0 /\ IsDigit(Head(text))
    THEN DigitsValue(Tail(text), 10 * acc + DigitValue(Head(text)))
    ELSE acc

\* parseInt(text): leading white space is skipped, then an optional sign, then
\* the longest run of decimal digits; NaN (None) when there is no digit.
ParseInt(text) ==
    LET t == TrimLeft(text)
        signed == Len(t) > 0 /\ Head(t) \in {"-", "+"}
        body == IF signed THEN Tail(t) ELSE t
    IN  IF Len(body) = 0 \/ ~IsDigit(Head(body)) THEN None
        ELSE IF signed /\ Head(t) = "-"
             THEN Some(0 - DigitsValue(body, 0))
             ELSE Some(DigitsValue(body, 0))

\* parseInt(text) || fallback: NaN and 0 are falsy.
ParseIntOr(text, fallback) ==
    LET n == ParseInt(text)
    IN  IF n = None \/ n[1] = 0 THEN fallback ELSE n[1]

RECURSIVE SplitComma(_, _)
\* String.prototype.split(','): cur is the token being read.
SplitComma(text, cur) ==
    IF Len(text) = 0 THEN <<cur>>
    ELSE IF Head(text) = "," THEN <<cur>> \o SplitComma(Tail(text), <<>>)
         ELSE SplitComma(Tail(text), Append(cur, Head(text)))

RECURSIVE Dedupe(_)
\* [...new Set(requests)]: the values in the order of their first occurrence.
Dedupe(s) ==
    IF Len(s) = 0 THEN <<>>
    ELSE LET front == Dedupe(SubSeq(s, 1, Len(s) - 1))
         IN  IF Includes(front, Last(s)) THEN front ELSE Append(front, Last(s))

\* StateManager.parseRequestQueue(queueString) with this.maxTrackNumber =
\* maxTrack.  queueString is None when it is not a string.
parseRequestQueue(queueString, maxTrack) ==
    IF queueString = None \/ Len(queueString[1]) = 0 THEN <<>>
    ELSE LET tokens == SplitComma(queueString[1], <<>>)
             nums == [i \in 1..Len(tokens) |-> ParseInt(tokens[i])]
             kept == SelectSeq(nums, LAMBDA num : num # None /\ num[1] >= 0 /\ num[1] <= maxTrack)
         IN  Dedupe([i \in 1..Len(kept) |-> kept[i][1]])

(***************************************************************************)
(* State.                                                                  *)
(***************************************************************************)
VARIABLES
    \* --- a policy object and its caller (SpecPolicy) ---
    ctorArgs,            \* the arguments given to `new <Policy>(...)`
    instance,            \* the constructed object, None before / when the constructor threw
    policyStatus,        \* "new" | "constructed" | "threw" | "executed"
    visit,               \* the array returned by execute(), None before
    visitAgain,          \* [fresh, sequence] of a second execute(), None before
    partition,           \* [helper, pivot, result] of a partition helper called, None before
    \* --- StateManager: simulation parameters ---
    config,              \* [algorithm, initialHeadPosition, maxTrackNumber, requestQueue, direction]
    \* --- StateManager: current simulation state ---
    allSteps, currentStepIndex, isRunning,
    \* --- StateManager: execution statistics ---
    stats,               \* [totalHeadMovement, seeksCount, averageSeekTime, currentHeadPosition,
                         \*  pendingRequests, servicedRequests, nextTarget]
    isInitialized,
    \* --- Controller ---
    animationFrameId,    \* None (null) or Some(id)
    playPauseBtn,        \* [text, active] of the play/pause button
    \* --- the browser ---
    frames,              \* ids of the requestAnimationFrame callbacks outstanding
    exporting,           \* the calls of the async handleExport that are suspended at
                         \* an await: [at, wasRunning, currentStep, invokedAt] each
    dom,                 \* the values of the configuration form (getParametersFromDOM)
    \* --- the most recent call and what it did ---
    call,
    \* --- history: Some(n) when the calls since the last jumpToStep(0) are
    \*     exactly n calls of nextStep(), None otherwise ---
    replayed

policyVars == <<ctorArgs, instance, policyStatus, visit, visitAgain, partition>>
ctlVars == <<animationFrameId, playPauseBtn, frames, exporting>>
vars == <<policyVars, config, allSteps, currentStepIndex, isRunning, stats,
          isInitialized, ctlVars, dom, call, replayed>>

(***************************************************************************)
(* state-manager.js: StateManager (pure parts).                            *)
(***************************************************************************)
\* The constructor's defaults.
DefaultHeadPosition == 53
DefaultMaxTrack == 199
DefaultRequestQueue == <<98, 183, 37, 122, 14, 124, 65, 67>>
\* validateParameters: the least max track number accepted.
MinMaxTrack == 10

RECURSIVE Gcd(_, _)
Gcd(a, b) == IF b = 0 THEN a ELSE Gcd(b, a % b)

\* The number n / d (d > 0), as the fraction in lowest terms.
Quotient(n, d) == [num |-> n \div Gcd(n, d), den |-> d \div Gcd(n, d)]

Zero == [num |-> 0, den |-> 1]

\* A step object (currentAction, a narration text, is left out).
Step(step, headPosition, nextTgt, totalMovement, seekDistance, pendingQueue, servicedQueue) ==
    [step |-> step, headPosition |-> headPosition, nextTarget |-> nextTgt,
     totalHeadMovement |-> totalMovement, seekDistance |-> seekDistance,
     pendingQueue |-> pendingQueue, servicedQueue |-> servicedQueue]

\* createInitialStep
createInitialStep(queue, headPosition) ==
    Step(0, headPosition, IF Len(queue) > 0 THEN Some(queue[1]) ELSE None, 0, 0, queue, <<>>)

\* Mutant of SeekDistance: Math.abs is missing.
SeekDistanceSigned(sequence, i) == sequence[i] - sequence[i-1]

\* The seek distance of the move to sequence[i] (1-based i >= 2).
SeekDistance(sequence, i) == Abs(sequence[i] - sequence[i-1])

\* Mutant of RemoveServiced: the track stays in the pending queue.
RemoveServicedKept(pendingQueue, currentPos) == pendingQueue

\* pendingQueue.filter(req => req !== currentPos)
RemoveServiced(pendingQueue, currentPos) == SelectSeq(pendingQueue, LAMBDA req : req # currentPos)

RECURSIVE ConvertLoop(_, _, _, _, _, _)
\* The for loop of convertSequenceToSteps, at JavaScript index i.
ConvertLoop(sequence, i, steps, totalMovement, servicedQueue, pendingQueue) ==
    IF i < Len(sequence)
    THEN LET currentPos == sequence[i+1]
             seekDistance == SeekDistance(sequence, i + 1)
             total == totalMovement + seekDistance
             hit == Includes(pendingQueue, currentPos)
             serviced == IF hit THEN Append(servicedQueue, currentPos) ELSE servicedQueue
             pending == IF hit THEN RemoveServiced(pendingQueue, currentPos) ELSE pendingQueue
             nextTgt == IF i + 1 < Len(sequence) THEN Some(sequence[i+2]) ELSE None
         IN  ConvertLoop(sequence, i + 1,
                         Append(steps, Step(i, currentPos, nextTgt, total, seekDistance, pending, serviced)),
                         total, serviced, pending)
    ELSE steps

\* convertSequenceToSteps(sequence) with this.requestQueue = queue and
\* this.initialHeadPosition = headPosition.
convertSequenceToSteps(sequence, queue, headPosition) ==
    ConvertLoop(sequence, 1, <<Step(0, headPosition, None, 0, 0, queue, <<>>)>>, 0, <<>>, queue)

\* getCurrentStep
getCurrentStep(steps, index, queue, headPosition) ==
    IF Len(steps) = 0 THEN createInitialStep(queue, headPosition)
    ELSE steps[(IF index < Len(steps) - 1 THEN index ELSE Len(steps) - 1) + 1]

\* Mutant of StatsOf: the average is taken over the records, the initial
\* record included, not over the seeks.
StatsOfPerRecord(currentStep) ==
    [totalHeadMovement   |-> currentStep.totalHeadMovement,
     seeksCount          |-> currentStep.step,
     averageSeekTime     |-> Quotient(currentStep.totalHeadMovement, currentStep.step + 1),
     currentHeadPosition |-> currentStep.headPosition,
     pendingRequests     |-> currentStep.pendingQueue,
     servicedRequests    |-> currentStep.servicedQueue,
     nextTarget          |-> currentStep.nextTarget]

\* The statistics updateStatistics copies from a step object.
StatsOf(currentStep) ==
    [totalHeadMovement   |-> currentStep.totalHeadMovement,
     seeksCount          |-> currentStep.step,
     averageSeekTime     |-> IF currentStep.step > 0
                             THEN Quotient(currentStep.totalHeadMovement, currentStep.step)
                             ELSE Zero,
     currentHeadPosition |-> currentStep.headPosition,
     pendingRequests     |-> currentStep.pendingQueue,
     servicedRequests    |-> currentStep.servicedQueue,
     nextTarget          |-> currentStep.nextTarget]

\* validateParameters().valid
validateParameters(queue, headPosition, maxTrack) ==
    /\ ~(Len(queue) = 0)
    /\ ~(headPosition < 0 \/ headPosition > maxTrack)
    /\ ~(maxTrack < MinMaxTrack)
    /\ ~(\E i \in 1..Len(queue) : queue[i] > maxTrack \/ queue[i] < 0)

(***************************************************************************)
(* What a call did: the operation, its arguments, how it ended ("returned" *)
(* or "threw"), its return value, and for the calls that build a run,      *)
(* whether a policy object was constructed, whether execute() ran, whether *)
(* the policy threw, the visit sequence obtained, and whether an error was *)
(* shown to the user.                                                      *)
(***************************************************************************)
Call(op, args, outcome, value) ==
    [op |-> op, args |-> args, outcome |-> outcome, value |-> value,
     instantiated |-> FALSE, executed |-> FALSE, coreThrew |-> FALSE,
     sequence |-> None, reported |-> FALSE]

(***************************************************************************)
(* state-manager.js: StateManager methods, as the effect on the state.     *)
(***************************************************************************)
\* Mutant of updateStatistics: the statistics are copied from the record
\* before the current one.
updateStatisticsBehind(steps, index) ==
    stats' = StatsOf(getCurrentStep(steps, Max(0, index - 1), config.requestQueue,
                                    config.initialHeadPosition))

\* updateStatistics with this.allSteps = steps, this.currentStepIndex = index
updateStatistics(steps, index) ==
    stats' = StatsOf(getCurrentStep(steps, index, config.requestQueue, config.initialHeadPosition))

\* The statistics resetSimulation assigns.
ResetStats(queue, headPosition) ==
    [totalHeadMovement   |-> 0,
     seeksCount          |-> 0,
     averageSeekTime     |-> Zero,
     currentHeadPosition |-> headPosition,
     pendingRequests     |-> queue,
     servicedRequests    |-> <<>>,
     nextTarget          |-> IF Len(queue) > 0 THEN Some(queue[1]) ELSE None]

\* The fields initializeWithParams assigns from params (parseRequestQueue
\* reads the max track number just assigned).
ParsedParams(params) ==
    LET maxTrack == ParseIntOr(params.maxTrackNumber, DefaultMaxTrack)
    IN  [algorithm           |-> IF params.algorithm = "" THEN "fcfs" ELSE params.algorithm,
         initialHeadPosition |-> ParseIntOr(params.initialHeadPosition, DefaultHeadPosition),
         maxTrackNumber      |-> maxTrack,
         requestQueue        |-> parseRequestQueue(params.requestQueue, maxTrack),
         direction           |-> IF params.direction = "" THEN "low" ELSE params.direction]

\* resetSimulation, for the parameters the action leaves in config'
resetSimulation ==
    /\ currentStepIndex' = 0
    /\ isRunning' = FALSE
    /\ stats' = ResetStats(config'.requestQueue, config'.initialHeadPosition)
    /\ allSteps' = <<createInitialStep(config'.requestQueue, config'.initialHeadPosition)>>

\* initializeWithParams(params)
initializeWithParams(params) ==
    /\ config' = ParsedParams(params)
    /\ resetSimulation
    /\ isInitialized' = TRUE

\* The step at JavaScript index 0 with the nextTarget generateSequence sets.
SetFirstNextTarget(steps) ==
    IF Len(steps) > 1 THEN [steps EXCEPT ![1].nextTarget = Some(steps[2].headPosition)]
    ELSE [steps EXCEPT ![1].nextTarget = None]

\* The object generateSequence constructs: None when `new` throws, which it
\* does when the class is undefined and when the constructor throws.
Construct(cls, headPosition, maxTrack, queue, dir) ==
    LET self == NewInstance(headPosition, maxTrack, queue, dir)
    IN  IF cls \in Policies /\ validateInput(self) THEN Some(self) ELSE None

\* The try block of generateSequence, given the sequence execute() returned.
StepsOfSequence(sequence, queue, headPosition) ==
    The({SetFirstNextTarget(IF Len(steps) = 0 THEN <<createInitialStep(queue, headPosition)>> ELSE steps) :
            steps \in {convertSequenceToSteps(sequence, queue, headPosition)}})

\* generateSequence(algorithmClass) on the given parameters: the timeline it
\* leaves in allSteps and returns, how it ended, and what it did on the way.
\* The catch block turns a throw of the policy into a normal return.
GenerateResult(cls, headPosition, maxTrack, queue, dir) ==
    LET obj == Construct(cls, headPosition, maxTrack, queue, Some(dir))
    IN  IF obj = None
        THEN [steps |-> <<createInitialStep(queue, headPosition)>>, outcome |-> "returned",
              instantiated |-> FALSE, executed |-> FALSE, coreThrew |-> TRUE, sequence |-> None]
        ELSE The({[steps |-> StepsOfSequence(sequence, queue, headPosition),
                   outcome |-> "returned",
                   instantiated |-> TRUE, executed |-> TRUE, coreThrew |-> FALSE,
                   sequence |-> Some(sequence)] : sequence \in {execute(cls, obj[1])}})

\* Mutant of nextStepMoves: no record is ever stepped to.
nextStepMovesNever == FALSE

\* Mutant of nextStepMoves: the last record is never stepped to.
nextStepMovesShort == currentStepIndex < Len(allSteps) - 2

\* nextStep() returns this
nextStepMoves == currentStepIndex < Len(allSteps) - 1

nextStep ==
    IF nextStepMoves
    THEN /\ currentStepIndex' = currentStepIndex + 1
         /\ updateStatistics(allSteps, currentStepIndex + 1)
    ELSE UNCHANGED <<currentStepIndex, stats>>

\* Mutant of previousStepMoves: the first record is never stepped back to.
previousStepMovesLate == currentStepIndex > 1

\* previousStep() returns this
previousStepMoves == currentStepIndex > 0

previousStep ==
    IF previousStepMoves
    THEN /\ currentStepIndex' = currentStepIndex - 1
         /\ updateStatistics(allSteps, currentStepIndex - 1)
    ELSE UNCHANGED <<currentStepIndex, stats>>

\* Mutant of ClampIndex: Math.min is missing, the index is bounded below only.
ClampIndexBelow(stepIndex, steps) == Max(0, stepIndex)

\* The index jumpToStep(stepIndex) moves to.
ClampIndex(stepIndex, steps) == Max(0, Min(stepIndex, Len(steps) - 1))

jumpToStep(stepIndex) ==
    /\ currentStepIndex' = ClampIndex(stepIndex, allSteps)
    /\ updateStatistics(allSteps, ClampIndex(stepIndex, allSteps))

\* isComplete() when the current index is index
isComplete(index) == index = Len(allSteps) - 1

(***************************************************************************)
(* controller.js: Controller (pure parts).  The animation state is the     *)
(* triple of state.isRunning, this.animationFrameId and the browser's      *)
(* outstanding frame callbacks.                                            *)
(***************************************************************************)
\* Mutant of CancelFrame: the callback requested is not cancelled.
CancelFrameNot(afid, frs) == frs

\* cancelAnimationFrame(id) when this.animationFrameId holds an id.
CancelFrame(afid, frs) == IF afid # None THEN frs \ {afid[1]} ELSE frs

\* The id requestAnimationFrame returns: one not in use.
FreshId(afid, frs) ==
    CHOOSE id \in 1..(Cardinality(frs) + 2) :
        /\ id \notin frs
        /\ afid # Some(id)
        /\ \A other \in 1..(id - 1) : other \in frs \/ afid = Some(other)

PlayBtn == [text |-> "Play", active |-> FALSE]
PauseBtn == [text |-> "Pause", active |-> TRUE]
ReplayBtn == [text |-> "Replay", active |-> FALSE]

\* toggleRunPause(forcePlay) from the given state: the index, the running
\* flag, the frame id, the outstanding frames and the button it leaves, and
\* whether it went through handleResetAnimation (jumped).
toggleRunPause(steps, index, running, afid, frs, forcePlay) ==
    LET complete == index = Len(steps) - 1
        index1 == IF complete THEN ClampIndex(0, steps) ELSE index
        running1 == IF complete THEN FALSE ELSE running
        frs1 == IF complete THEN CancelFrame(afid, frs) ELSE frs
        afid1 == IF complete THEN None ELSE afid
        force1 == IF complete THEN Some(TRUE) ELSE forcePlay
        shouldBeRunning == IF force1 # None THEN force1[1] ELSE ~running1
    IN  IF shouldBeRunning
        THEN [index |-> index1,
              \* state.resume()
              running |-> IF ~(index1 = Len(steps) - 1) THEN TRUE ELSE running1,
              btn |-> PauseBtn,
              \* startAnimation()
              afid |-> IF afid1 # None THEN afid1 ELSE Some(FreshId(afid1, frs1)),
              frames |-> IF afid1 # None THEN frs1 ELSE frs1 \cup {FreshId(afid1, frs1)},
              jumped |-> complete]
        ELSE [index |-> index1,
              running |-> FALSE,
              btn |-> PlayBtn,
              \* stopAnimation()
              afid |-> None,
              frames |-> CancelFrame(afid1, frs1),
              jumped |-> complete]

\* Mutant of Registered: the lookup always finds a class.
RegisteredAlways(name) == TRUE

\* this.algorithms.get(name) finds a class.
Registered(name) == name \in Policies

\* generateSimulation(silent) with the parameters read from the DOM: the
\* state it leaves and what it did.
generateSimulation(params, silent) ==
    The({LET alg == P.algorithm
             headPosition == P.initialHeadPosition
             maxTrack == P.maxTrackNumber
             queue == P.requestQueue
             dir == P.direction
             initial == <<createInitialStep(queue, headPosition)>>
             failed == [returns |-> FALSE, steps |-> initial, stats |-> ResetStats(queue, headPosition),
                        instantiated |-> FALSE, executed |-> FALSE, coreThrew |-> FALSE,
                        sequence |-> None, reported |-> ~silent]
         IN  IF ~validateParameters(queue, headPosition, maxTrack) THEN failed
             ELSE IF ~Registered(alg) THEN failed
             ELSE The({[returns |-> TRUE, steps |-> r.steps,
                        stats |-> StatsOf(getCurrentStep(r.steps, 0, queue, headPosition)),
                        instantiated |-> r.instantiated, executed |-> r.executed,
                        coreThrew |-> r.coreThrew, sequence |-> r.sequence, reported |-> FALSE] :
                          r \in {GenerateResult(alg, headPosition, maxTrack, queue, dir)}}) :
            P \in {ParsedParams(params)}})

\* The record of a generateSimulation call g made by operation op.
CallOfGenerate(op, params, g) ==
    [Call(op, params, "returned", Some(g.returns)) EXCEPT
        !.instantiated = g.instantiated, !.executed = g.executed,
        !.coreThrew = g.coreThrew, !.sequence = g.sequence, !.reported = g.reported]

(***************************************************************************)
(* The inputs.                                                             *)
(***************************************************************************)
\* Longest request text, in tokens, typed into the request field.
MaxTokens == 2

AlgorithmNames == Policies \cup {"bogus"}
DirectionNames == {"low", "high"}
HeadTexts == {<<"0">>, <<"3">>, <<"-", "1">>}
MaxTrackTexts == {<<"0">>, <<"9">>, <<"1", "0">>, <<"6", "0">>}
TokenTexts == {<<"3">>, <<"7">>, <<"x">>}

RECURSIVE JoinComma(_)
\* Array.prototype.join(','): the request text made of the tokens.
JoinComma(tokens) ==
    IF Len(tokens) = 0 THEN <<>>
    ELSE IF Len(tokens) = 1 THEN tokens[1]
    ELSE (tokens[1] \o <<",">>) \o JoinComma(Tail(tokens))

TokenLists == UNION {[1..n -> TokenTexts] : n \in 0..MaxTokens}
QueueTexts == {Some(JoinComma(tokens)) : tokens \in TokenLists}

ParamsSet ==
    [algorithm : AlgorithmNames, initialHeadPosition : HeadTexts,
     maxTrackNumber : MaxTrackTexts, requestQueue : QueueTexts,
     direction : DirectionNames]

(***************************************************************************)
(* Initial state: the page has loaded.  main.js initializeApp has made the *)
(* StateManager and the Controller and has called handleInputChange()      *)
(* once, that is generateSimulation(true) on the content of the form.      *)
(* No policy object is held outside generateSequence.                      *)
(***************************************************************************)
NoPolicy ==
    /\ ctorArgs = None
    /\ instance = None
    /\ policyStatus = "none"
    /\ visit = None
    /\ visitAgain = None
    /\ partition = None

\* The state generateSimulation(true) leaves when the form holds params.
Loaded(params) ==
    \E g \in {generateSimulation(params, TRUE)} :
        /\ dom = params
        /\ config = ParsedParams(params)
        /\ allSteps = g.steps
        /\ currentStepIndex = 0
        /\ isRunning = FALSE
        /\ stats = g.stats
        /\ isInitialized = TRUE
        /\ animationFrameId = None
        /\ playPauseBtn = PlayBtn
        /\ frames = {}
        /\ exporting = <<>>
        /\ call = CallOfGenerate("handleInputChange", params, g)
        /\ replayed = None

Init ==
    /\ NoPolicy
    /\ \E params \in ParamsSet : Loaded(params)

(***************************************************************************)
(* StateManager's methods called directly.                                 *)
(***************************************************************************)
\* The history after jumpToStep(stepIndex), after nextStep() and after any
\* other call.
ReplayFrom(stepIndex) == replayed' = IF stepIndex = 0 THEN Some(0) ELSE None
ReplayOn ==
    replayed' = IF replayed # None /\ replayed[1] < Len(allSteps) - 1
                THEN Some(replayed[1] + 1) ELSE None
ReplayOff == replayed' = None

\* initializeWithParams(params), the parameters being those the form holds
SMInitializeWithParams ==
    /\ initializeWithParams(dom)
    /\ call' = Call("initializeWithParams", dom, "returned", None)
    /\ UNCHANGED <<policyVars, ctlVars, dom>>
    /\ ReplayOff

SMResetSimulation ==
    /\ UNCHANGED config
    /\ resetSimulation
    /\ call' = Call("resetSimulation", None, "returned", None)
    /\ UNCHANGED <<policyVars, isInitialized, ctlVars, dom>>
    /\ ReplayOff

\* generateSequence(algorithmClass), the class being the one registered under
\* state.algorithm
SMGenerateSequence ==
    /\ config.algorithm \in Policies
    /\ \E r \in {GenerateResult(config.algorithm, config.initialHeadPosition,
                                 config.maxTrackNumber, config.requestQueue, config.direction)} :
           /\ currentStepIndex' = 0
           /\ isRunning' = FALSE
           /\ allSteps' = r.steps
           /\ stats' = StatsOf(getCurrentStep(r.steps, 0, config.requestQueue, config.initialHeadPosition))
           /\ call' = [Call("generateSequence", config.algorithm, r.outcome, Some("allSteps")) EXCEPT
                          !.instantiated = r.instantiated, !.executed = r.executed,
                          !.coreThrew = r.coreThrew, !.sequence = r.sequence]
    /\ UNCHANGED <<policyVars, config, isInitialized, ctlVars, dom>>
    /\ ReplayOff

SMNextStep ==
    /\ nextStep
    /\ call' = Call("nextStep", None, "returned", Some(nextStepMoves))
    /\ UNCHANGED <<policyVars, config, allSteps, isRunning, isInitialized, ctlVars, dom>>
    /\ ReplayOn

SMPreviousStep ==
    /\ previousStep
    /\ call' = Call("previousStep", None, "returned", Some(previousStepMoves))
    /\ UNCHANGED <<policyVars, config, allSteps, isRunning, isInitialized, ctlVars, dom>>
    /\ ReplayOff

SMJumpToStep(stepIndex) ==
    /\ jumpToStep(stepIndex)
    /\ call' = Call("jumpToStep", stepIndex, "returned", None)
    /\ UNCHANGED <<policyVars, config, allSteps, isRunning, isInitialized, ctlVars, dom>>
    /\ ReplayFrom(stepIndex)

\* getExportData() jumps to the last step before it reads the statistics.
SMGetExportData ==
    /\ jumpToStep(Len(allSteps) - 1)
    /\ call' = Call("getExportData", None, "returned", Some("exportData"))
    /\ UNCHANGED <<policyVars, config, allSteps, isRunning, isInitialized, ctlVars, dom>>
    /\ ReplayFrom(Len(allSteps) - 1)

(***************************************************************************)
(* The controller's handlers and the frame callback.                       *)
(***************************************************************************)
\* generateSimulation(silent) as a whole: stopAnimation, then the run on the
\* parameters params read from the form.
GenerateSimulation(op, params, silent) ==
    \E g \in {generateSimulation(params, silent)} :
        /\ config' = ParsedParams(params)
        /\ isInitialized' = TRUE
        /\ allSteps' = g.steps
        /\ currentStepIndex' = 0
        /\ isRunning' = FALSE
        /\ stats' = g.stats
        /\ animationFrameId' = None
        /\ frames' = CancelFrame(animationFrameId, frames)
        /\ call' = CallOfGenerate(op, params, g)
        /\ ReplayOff
        /\ UNCHANGED <<policyVars, playPauseBtn, exporting>>

\* The values a field of the form is changed to.
FieldValues(field) ==
    CASE field = "algorithm" -> AlgorithmNames
      [] field = "direction" -> DirectionNames
      [] field = "initialHeadPosition" -> HeadTexts
      [] field = "maxTrackNumber" -> MaxTrackTexts
      [] field = "requestQueue" -> QueueTexts

\* main.js handleInputChange: the user changes a field of the form, and the
\* listener calls generateSimulation(true).
HandleInputChange(field, value) ==
    /\ dom' = [dom EXCEPT ![field] = value]
    /\ GenerateSimulation("handleInputChange", dom', TRUE)

\* handleRunSimulation: generateSimulation(false), then toggleRunPause(true)
\* when it succeeded.
HandleRunSimulation ==
    \E g \in {generateSimulation(dom, FALSE)} :
    \E t \in {toggleRunPause(g.steps, 0, FALSE, None, CancelFrame(animationFrameId, frames), Some(TRUE))} :
        /\ IF g.returns
           THEN /\ config' = ParsedParams(dom)
                /\ isInitialized' = TRUE
                /\ allSteps' = g.steps
                /\ currentStepIndex' = t.index
                /\ isRunning' = t.running
                /\ stats' = (IF t.jumped
                             THEN StatsOf(getCurrentStep(g.steps, t.index, config'.requestQueue,
                                                         config'.initialHeadPosition))
                             ELSE g.stats)
                /\ animationFrameId' = t.afid
                /\ frames' = t.frames
                /\ playPauseBtn' = t.btn
                /\ call' = CallOfGenerate("handleRunSimulation", dom, g)
                /\ (IF t.jumped THEN ReplayFrom(0) ELSE ReplayOff)
                /\ UNCHANGED <<policyVars, exporting>>
           ELSE GenerateSimulation("handleRunSimulation", dom, FALSE)
        /\ UNCHANGED dom

\* handleFullReset
HandleFullReset ==
    /\ initializeWithParams(dom)
    /\ animationFrameId' = None
    /\ frames' = CancelFrame(animationFrameId, frames)
    /\ call' = Call("handleFullReset", dom, "returned", None)
    /\ UNCHANGED <<policyVars, playPauseBtn, exporting, dom>>
    /\ ReplayOff

\* A click on the play/pause button: toggleRunPause()
TogglePlayPause ==
    \E t \in {toggleRunPause(allSteps, currentStepIndex, isRunning, animationFrameId, frames, None)} :
        /\ currentStepIndex' = t.index
        /\ isRunning' = t.running
        /\ IF t.jumped THEN updateStatistics(allSteps, t.index) ELSE UNCHANGED stats
        /\ animationFrameId' = t.afid
        /\ frames' = t.frames
        /\ playPauseBtn' = t.btn
        /\ call' = Call("toggleRunPause", None, "returned", None)
        /\ (IF t.jumped THEN ReplayFrom(0) ELSE UNCHANGED replayed)
        /\ UNCHANGED <<policyVars, config, allSteps, isInitialized, exporting, dom>>

\* Mutant of stopAnimation: the frame requested is not cancelled.
stopAnimationKeepsFrame ==
    /\ frames' = frames
    /\ animationFrameId' = None
    /\ isRunning' = FALSE

\* stopAnimation(), as part of a handler
stopAnimation ==
    /\ frames' = CancelFrame(animationFrameId, frames)
    /\ animationFrameId' = None
    /\ isRunning' = FALSE

HandleStepForward ==
    /\ stopAnimation
    /\ playPauseBtn' = PlayBtn
    /\ nextStep
    /\ call' = Call("handleStepForward", None, "returned", None)
    /\ UNCHANGED <<policyVars, config, allSteps, isInitialized, exporting, dom>>
    /\ ReplayOn

HandleStepBackward ==
    /\ stopAnimation
    /\ playPauseBtn' = PlayBtn
    /\ previousStep
    /\ call' = Call("handleStepBackward", None, "returned", None)
    /\ UNCHANGED <<policyVars, config, allSteps, isInitialized, exporting, dom>>
    /\ ReplayOff

HandleResetAnimation ==
    /\ stopAnimation
    /\ jumpToStep(0)
    /\ playPauseBtn' = PlayBtn
    /\ call' = Call("handleResetAnimation", None, "returned", None)
    /\ UNCHANGED <<policyVars, config, allSteps, isInitialized, exporting, dom>>
    /\ ReplayFrom(0)

\* The browser runs the frame callback id: animationLoop(timestamp).  due says
\* whether the time elapsed since the last step exceeds the animation delay.
AnimationLoop(id, due) ==
    /\ id \in frames
    /\ IF ~isRunning
       THEN /\ animationFrameId' = None
            /\ frames' = frames \ {id}
            /\ UNCHANGED <<currentStepIndex, stats, isRunning, playPauseBtn>>
       ELSE IF due /\ ~nextStepMoves
       THEN \* animation finished: stopAnimation(), the button reads Replay
            /\ animationFrameId' = None
            /\ frames' = CancelFrame(animationFrameId, frames \ {id})
            /\ isRunning' = FALSE
            /\ playPauseBtn' = ReplayBtn
            /\ UNCHANGED <<currentStepIndex, stats>>
       ELSE \* a normal step, or not yet due; the next frame is requested
            /\ IF due THEN nextStep ELSE UNCHANGED <<currentStepIndex, stats>>
            /\ animationFrameId' = Some(FreshId(animationFrameId, frames \ {id}))
            /\ frames' = (frames \ {id}) \cup {FreshId(animationFrameId, frames \ {id})}
            /\ UNCHANGED <<isRunning, playPauseBtn>>
    /\ call' = Call("animationLoop", due, "returned", None)
    /\ (IF isRunning /\ due THEN ReplayOn ELSE UNCHANGED replayed)
    /\ UNCHANGED <<policyVars, config, allSteps, isInitialized, exporting, dom>>

(***************************************************************************)
(* controller.js: handleExport, an async function.  A call runs up to its  *)
(* first await and returns a promise; the browser resumes it when the 50   *)
(* ms timer has fired and again when generatePDF has settled.  Between     *)
(* these, frame callbacks and user events may run.                         *)
(***************************************************************************)
\* The most calls of handleExport suspended at one time: a click on Export
\* PDF while as many are suspended is not taken.
MaxExports == 1

\* What toggleRunPause leaves when it is not called.
NotToggled ==
    [index |-> currentStepIndex, running |-> isRunning, btn |-> playPauseBtn,
     afid |-> animationFrameId, frames |-> frames, jumped |-> FALSE]

\* A click on Export PDF: wasRunning is read, toggleRunPause(false) is
\* called when it is true, and the call suspends at the timer.
HandleExport ==
    /\ Len(exporting) < MaxExports
    /\ \E t \in {IF isRunning
                  THEN toggleRunPause(allSteps, currentStepIndex, isRunning, animationFrameId,
                                      frames, Some(FALSE))
                  ELSE NotToggled} :
           /\ currentStepIndex' = t.index
           /\ isRunning' = t.running
           /\ IF t.jumped THEN updateStatistics(allSteps, t.index) ELSE UNCHANGED stats
           /\ animationFrameId' = t.afid
           /\ frames' = t.frames
           /\ playPauseBtn' = t.btn
           /\ (IF t.jumped THEN ReplayFrom(0) ELSE UNCHANGED replayed)
    /\ exporting' = Append(exporting, [at |-> "timer", wasRunning |-> isRunning, currentStep |-> None,
                                       \* history: the index when the call was made
                                       invokedAt |-> currentStepIndex])
    /\ call' = Call("handleExport", "invoked", "returned", None)
    /\ UNCHANGED <<policyVars, config, allSteps, isInitialized, dom>>

\* The timer of the suspended call i has fired: currentStep is read, the
\* state jumps to the last record (jumpToStep, and again in getExportData),
\* and the call suspends at generatePDF.
ExportSettled(i) ==
    /\ exporting[i].at = "timer"
    /\ jumpToStep(Len(allSteps) - 1)
    /\ exporting' = [exporting EXCEPT ![i].at = "generatePDF",
                                      ![i].currentStep = Some(currentStepIndex)]
    /\ call' = Call("handleExport", "settled", "returned", None)
    /\ ReplayFrom(Len(allSteps) - 1)
    /\ UNCHANGED <<policyVars, config, allSteps, isRunning, isInitialized, animationFrameId,
                   playPauseBtn, frames, dom>>

\* generatePDF of the suspended call i has settled (failed: it was rejected
\* and the error is shown): the state jumps back to currentStep, and
\* toggleRunPause(true) is called when wasRunning is true.
ExportFinished(i, failed) ==
    /\ exporting[i].at = "generatePDF"
    /\ \E back \in {ClampIndex(exporting[i].currentStep[1], allSteps)} :
       \E t \in {IF exporting[i].wasRunning
                  THEN toggleRunPause(allSteps, back, isRunning, animationFrameId, frames, Some(TRUE))
                  ELSE [NotToggled EXCEPT !.index = back]} :
           /\ currentStepIndex' = t.index
           /\ updateStatistics(allSteps, t.index)
           /\ isRunning' = t.running
           /\ animationFrameId' = t.afid
           /\ frames' = t.frames
           /\ playPauseBtn' = t.btn
           /\ ReplayFrom(t.index)
    /\ exporting' = RemoveAt(exporting, i)
    /\ call' = [Call("handleExport", "finished", "returned", None) EXCEPT !.reported = failed]
    /\ UNCHANGED <<policyVars, config, allSteps, isInitialized, dom>>

\* The fields of the form the user changes after the page has loaded (the
\* initial state holds every content of the form).
EditedFields == {"direction"}

\* The arguments tried for jumpToStep: every index and one beyond each end.
JumpArgs == -1..Len(allSteps)

Next ==
    \/ SMInitializeWithParams
    \/ SMResetSimulation
    \/ SMGenerateSequence
    \/ SMNextStep
    \/ SMPreviousStep
    \/ \E stepIndex \in JumpArgs : SMJumpToStep(stepIndex)
    \/ SMGetExportData
    \/ \E field \in EditedFields : \E value \in FieldValues(field) : HandleInputChange(field, value)
    \/ HandleRunSimulation
    \/ HandleFullReset
    \/ HandleStepForward
    \/ HandleStepBackward
    \/ HandleResetAnimation

Spec == Init /\ [][Next]_vars

(***************************************************************************)
(* A policy object on its own: a caller writes `new <Policy>(...)` with    *)
(* arguments of its choice and, when the constructor returned, calls       *)
(* execute().  The page stays as it was loaded.                            *)
(***************************************************************************)
\* The tracks given to a constructor: the disk and one track beyond each end.
TracksP == -1..(MaxTrackP + 1)

RequestListsP == UNION {[1..n -> TracksP] : n \in 0..MaxReqP}

CtorArgsSet ==
    [cls : Policies, initialPosition : TracksP, maxTrack : {MaxTrackP},
     requests : RequestListsP, direction : {None, Some("low"), Some("high")}]

\* The content of the form while the policy objects are exercised.
FormP ==
    [algorithm |-> "fcfs", initialHeadPosition |-> <<"3">>, maxTrackNumber |-> <<"1", "0">>,
     requestQueue |-> Some(<<"3", ",", "7">>), direction |-> "low"]

InitPolicy ==
    /\ \E args \in CtorArgsSet : ctorArgs = Some(args)
    /\ instance = None
    /\ policyStatus = "new"
    /\ visit = None
    /\ visitAgain = None
    /\ partition = None
    /\ Loaded(FormP)

\* new <cls>(initialPosition, maxTrack, requests, direction): the field
\* assignments, then validateInput(), which may throw.
PolicyConstruct ==
    /\ policyStatus = "new"
    /\ \E self \in {NewInstance(ctorArgs[1].initialPosition, ctorArgs[1].maxTrack,
                                ctorArgs[1].requests, ctorArgs[1].direction)} :
           IF validateInput(self)
           THEN instance' = Some(self) /\ policyStatus' = "constructed"
           ELSE instance' = None /\ policyStatus' = "threw"
    /\ UNCHANGED <<ctorArgs, visit, visitAgain, partition, config, allSteps, currentStepIndex, isRunning, stats,
                   isInitialized, ctlVars, dom, call, replayed>>

\* instance.execute() on a constructed object: the array it returns and the
\* object it leaves.
PolicyExecute ==
    /\ policyStatus = "constructed"
    /\ visit' = Some(execute(ctorArgs[1].cls, instance[1]))
    /\ instance' = Some(executeLeaves(ctorArgs[1].cls, instance[1]))
    /\ policyStatus' = "executed"
    /\ UNCHANGED <<ctorArgs, visitAgain, partition, config, allSteps, currentStepIndex, isRunning, stats,
                   isInitialized, ctlVars, dom, call, replayed>>

\* A second execute(): on the same object, or (fresh) on a second object
\* constructed from the same arguments.
PolicyExecuteAgain(fresh) ==
    /\ policyStatus = "executed"
    /\ visitAgain = None
    /\ \E self \in {IF fresh
                     THEN NewInstance(ctorArgs[1].initialPosition, ctorArgs[1].maxTrack,
                                      ctorArgs[1].requests, ctorArgs[1].direction)
                     ELSE instance[1]} :
           visitAgain' = Some([fresh |-> fresh, sequence |-> execute(ctorArgs[1].cls, self)])
    /\ UNCHANGED <<ctorArgs, instance, policyStatus, visit, partition, config, allSteps, currentStepIndex,
                   isRunning, stats, isInitialized, ctlVars, dom, call, replayed>>

NextPolicy ==
    \/ PolicyConstruct
    \/ PolicyExecute
    \/ \E fresh \in BOOLEAN : PolicyExecuteAgain(fresh)

SpecPolicy == InitPolicy /\ [][NextPolicy]_vars


(***************************************************************************)
(* Properties of a policy object (SpecPolicy).                             *)
(***************************************************************************)
\* The constructed object has executed on distinct requests.
ExecutedOnDistinct == policyStatus = "executed" /\ NoDup(instance[1].requests)

\* The visit sequence minus its first element.
VisitTail == Tail(visit[1])

\* The requests of the constructed object, as a set.
RequestSet == Elems(instance[1].requests)

InvalidCtorArgs ==
    LET a == ctorArgs[1]
    IN  \/ Len(a.requests) = 0
        \/ a.initialPosition < 0
        \/ a.initialPosition > a.maxTrack
        \/ \E i \in 1..Len(a.requests) : a.requests[i] < 0 \/ a.requests[i] > a.maxTrack

\* C5: constructing any policy with an empty request array, with an initial
\* position below 0 or above maxTrack, or with any request below 0 or above
\* maxTrack throws: no object is obtained, execute() is never reached and no
\* visit sequence is produced.
C5_FailFast ==
    InvalidCtorArgs =>
        /\ policyStatus \in {"new", "threw"}
        /\ instance = None
        /\ visit = None

\* C5 witness: a constructor has thrown on arguments whose only fault is the
\* last request, which lies above maxTrack.
C5_Witness ==
    LET a == ctorArgs[1]
    IN  /\ policyStatus = "threw"
        /\ a.initialPosition \in 0..a.maxTrack
        /\ Len(a.requests) > 1
        /\ Last(a.requests) > a.maxTrack
        /\ \A i \in 1..(Len(a.requests) - 1) : a.requests[i] \in 0..a.maxTrack


(***************************************************************************)
(* Properties of the simulation state and the controller (Spec).           *)
(***************************************************************************)
RECURSIVE SumSeekDistance(_, _)
\* The sum of seekDistance over the first i records of a timeline.
SumSeekDistance(steps, i) ==
    IF i = 0 THEN 0 ELSE SumSeekDistance(steps, i - 1) + steps[i].seekDistance

\* C2: in the step timeline built by convertSequenceToSteps, record 0 has
\* seekDistance 0 and totalHeadMovement 0; every later record i has
\* seekDistance = |sequence[i] - sequence[i-1]|, the head position of record
\* i being sequence[i]; totalHeadMovement of record i is the sum of
\* seekDistance over records 0..i and is non-decreasing in i.
C2_MovementAccounting ==
    /\ allSteps[1].seekDistance = 0
    /\ allSteps[1].totalHeadMovement = 0
    /\ call.sequence # None =>
          /\ Len(allSteps) = Len(call.sequence[1])
          /\ \A i \in 1..Len(allSteps) : allSteps[i].headPosition = call.sequence[1][i]
    /\ \A i \in 2..Len(allSteps) :
          /\ allSteps[i].seekDistance = Abs(allSteps[i].headPosition - allSteps[i-1].headPosition)
          /\ allSteps[i].totalHeadMovement >= allSteps[i-1].totalHeadMovement
    /\ \A i \in 1..Len(allSteps) :
          allSteps[i].totalHeadMovement = SumSeekDistance(allSteps, i)

\* C2 witness: a C-SCAN timeline with the wrap jump from track 0 to maxTrack,
\* counted with its full length.
C2_Witness ==
    /\ config.algorithm = "cscan"
    /\ \E i \in 2..Len(allSteps) :
          /\ allSteps[i-1].headPosition = 0
          /\ allSteps[i].headPosition = config.maxTrackNumber
          /\ allSteps[i].seekDistance = config.maxTrackNumber
          /\ allSteps[i].totalHeadMovement > config.maxTrackNumber


\* Two calls in a row are jumpToStep(i) with the same i.
SecondJump ==
    /\ call.op = "jumpToStep"
    /\ call'.op = "jumpToStep"
    /\ call'.args = call.args

\* The exposed statistics are those of the timeline's final record.
AtFinalRecord ==
    LET final == Last(allSteps)
    IN  /\ currentStepIndex = Len(allSteps) - 1
        /\ stats.currentHeadPosition = final.headPosition
        /\ stats.totalHeadMovement = final.totalHeadMovement
        /\ stats.seeksCount = final.step
        /\ stats.averageSeekTime = (IF final.step > 0
                                    THEN Quotient(final.totalHeadMovement, final.step)
                                    ELSE Zero)
        /\ stats.pendingRequests = final.pendingQueue
        /\ stats.servicedRequests = final.servicedQueue
        /\ stats.nextTarget = final.nextTarget

\* C3: jumpToStep(i) followed by jumpToStep(i) leaves the exposed statistics
\* (currentStepIndex, currentHeadPosition, totalHeadMovement, seeksCount,
\* averageSeekTime, pending, serviced, nextTarget) as they were after the
\* first jump; and jumpToStep(0) followed by n = allSteps.length - 1 calls
\* of nextStep() yields exactly the statistics of the final record.
C3_IdempotentReplay ==
    /\ [][SecondJump => currentStepIndex' = currentStepIndex /\ stats' = stats]_vars
    /\ [](replayed = Some(Len(allSteps) - 1) => AtFinalRecord)

\* C3 witness: a timeline of at least three records has been replayed from
\* jumpToStep(0) by as many nextStep() calls as it has records after the first.
C3_Witness ==
    /\ Len(allSteps) >= 3
    /\ replayed = Some(Len(allSteps) - 1)
    /\ call.op = "nextStep"


\* The replay methods of the StateManager and the replay handlers of the
\* controller.
ReplayMethods == {"nextStep", "previousStep", "jumpToStep"}
ReplayHandlers == {"handleStepForward", "handleStepBackward", "handleResetAnimation"}

\* The timeline and the parameters are as they were.
RunKept == allSteps' = allSteps /\ config' = config /\ isInitialized' = isInitialized

\* The statistics are those of the record at the current index.
StatsOfCurrentRecord ==
    LET record == allSteps[currentStepIndex + 1]
    IN  /\ stats.currentHeadPosition = record.headPosition
        /\ stats.totalHeadMovement = record.totalHeadMovement
        /\ stats.seeksCount = record.step
        /\ stats.pendingRequests = record.pendingQueue
        /\ stats.servicedRequests = record.servicedQueue
        /\ stats.nextTarget = record.nextTarget

\* C4 as stated: nextStep, previousStep, jumpToStep, handleStepForward,
\* handleStepBackward and handleResetAnimation leave allSteps and the five
\* parameters unchanged and change only the current index and the
\* statistics.
C4_OnlyIndexAndStatistics ==
    [][call'.op \in ReplayMethods \cup ReplayHandlers =>
          RunKept /\ UNCHANGED <<isRunning, animationFrameId, playPauseBtn, frames>>]_vars

\* C4 as amended: the six operations leave allSteps (every record and its
\* length), requestQueue, initialHeadPosition, maxTrackNumber, algorithm and
\* direction unchanged and leave the statistics those of the record at the
\* current index; the three methods change nothing else, and the three
\* handlers besides that only stop the playback: isRunning becomes false, the
\* pending frame is cancelled and the button reads Play.
C4_ReplayFrame ==
    [][call'.op \in ReplayMethods \cup ReplayHandlers =>
          /\ RunKept
          /\ currentStepIndex' \in 0..(Len(allSteps) - 1)
          /\ StatsOfCurrentRecord'
          /\ call'.op \in ReplayMethods =>
                UNCHANGED <<isRunning, animationFrameId, playPauseBtn, frames>>
          /\ call'.op \in ReplayHandlers =>
                /\ isRunning' = FALSE
                /\ animationFrameId' = None
                /\ frames' = CancelFrame(animationFrameId, frames)
                /\ playPauseBtn' = PlayBtn]_vars

\* C4 witness: handleStepForward has moved a stopped timeline of at least
\* three records off its first record.
C4_Witness ==
    /\ call.op = "handleStepForward"
    /\ Len(allSteps) >= 3
    /\ currentStepIndex >= 1
    /\ ~isRunning


\* The calls that go through Controller.generateSimulation, which reads the
\* form (call.args) and runs silently when the listener of the form made it.
GenerateCalls == {"handleInputChange", "handleRunSimulation"}
SilentCall == call.op = "handleInputChange"

\* The configuration supplied in the form is invalid in the claim's sense:
\* no request is left after parsing, the supplied initial position lies
\* outside [0, maxTrack], or the supplied maxTrack is below the minimum.
SuppliedInvalid(params) ==
    LET suppliedMax == ParseInt(params.maxTrackNumber)
        suppliedHead == ParseInt(params.initialHeadPosition)
    IN  \/ Len(ParsedParams(params).requestQueue) = 0
        \/ /\ suppliedHead # None
           /\ suppliedMax # None
           /\ suppliedHead[1] < 0 \/ suppliedHead[1] > suppliedMax[1]
        \/ suppliedMax # None /\ suppliedMax[1] < MinMaxTrack

\* No run was created: generateSimulation returned false, no policy class
\* was instantiated or executed, and the timeline is the single initial
\* record.
NoRunCreated ==
    /\ call.value = Some(FALSE)
    /\ ~call.instantiated
    /\ ~call.executed
    /\ Len(allSteps) = 1
    /\ currentStepIndex = 0

\* C6: for every supplied configuration whose request set is empty after
\* parsing, whose supplied initial position lies outside [0, maxTrack], or
\* whose supplied maxTrack is below the minimum of 10 (0 included),
\* generateSimulation returns false, no policy class is instantiated or
\* executed, and the state holds only the single initial record.
C6_InvalidNeverRuns ==
    call.op \in GenerateCalls /\ SuppliedInvalid(call.args) => NoRunCreated

\* C7: for every integer p with 0 <= p <= maxTrack given as
\* initialHeadPosition (p = 0 included), after initializeWithParams and
\* generateSequence the head position of step record 0 and
\* state.initialHeadPosition both equal p.
C7_HeadHonoured ==
    LET p == ParseInt(call.args.initialHeadPosition)
        maxTrack == ParseInt(call.args.maxTrackNumber)
    IN  /\ call.op \in GenerateCalls
        /\ call.value = Some(TRUE)
        /\ maxTrack = Some(config.maxTrackNumber)
        /\ p # None
        /\ p[1] >= 0
        /\ p[1] <= maxTrack[1]
        => /\ config.initialHeadPosition = p[1]
           /\ allSteps[1].headPosition = p[1]

\* C8 as stated: when the configured algorithm name has no class registered,
\* generateSimulation returns false and reports the error, executes no
\* policy, and leaves only the initial record with currentStepIndex 0.
C8_UnknownPolicyReported ==
    call.op \in GenerateCalls /\ call.args.algorithm \notin Policies =>
        NoRunCreated /\ call.reported

\* C8 as amended: when the configured algorithm name has no class
\* registered, generateSimulation returns false, executes no policy and
\* leaves only the initial record with currentStepIndex 0; it reports the
\* error unless it was called in silent mode, where it reports nothing.
C8_UnknownPolicy ==
    call.op \in GenerateCalls /\ call.args.algorithm \notin Policies =>
        NoRunCreated /\ (call.reported <=> ~SilentCall)

\* C8 witness: a run was requested, not silently, on a valid configuration
\* whose algorithm name is not registered, and the error was reported.
C8_Witness ==
    /\ call.op = "handleRunSimulation"
    /\ call.args.algorithm \notin Policies
    /\ validateParameters(config.requestQueue, config.initialHeadPosition, config.maxTrackNumber)
    /\ call.reported

\* C9: when the policy constructor or execute() throws inside
\* generateSequence, the caller of generateSequence gets a failure, not a
\* normal return carrying a timeline.
C9_CoreErrorSurfaced ==
    call.op = "generateSequence" /\ call.coreThrew => call.outcome = "threw"

\* The entries of the visit sequence after the first are not exactly the
\* requests: one is missing, duplicated, or not a request.
TailNotRequestSet(sequence, requests) ==
    \/ Elems(Tail(sequence)) # Elems(requests)
    \/ ~NoDup(Tail(sequence))

\* C10: when generateSequence / convertSequenceToSteps is given a visit
\* sequence whose entries after the first are not exactly the request set,
\* it reports a hard failure instead of returning a timeline.
C10_IncompleteSequenceFails ==
    /\ call.op \in GenerateCalls \cup {"generateSequence"}
    /\ call.sequence # None
    /\ TailNotRequestSet(call.sequence[1], config.requestQueue)
    => \/ call.outcome = "threw"
       \/ call.value = Some(FALSE)


Executed(cls) == policyStatus = "executed" /\ ctorArgs[1].cls = cls

\* C12: FCFS.  For every valid configuration the visit sequence is the
\* initial position followed by the requests in exactly the order supplied,
\* whatever the head position and whatever the direction hint.
C12_ArrivalOrder ==
    Executed("fcfs") =>
        visit[1] = <<ctorArgs[1].initialPosition>> \o ctorArgs[1].requests

\* C12 witness: FCFS has executed with hint 'high' on three requests given in
\* neither ascending nor descending order, from a position between them.
C12_Witness ==
    /\ Executed("fcfs")
    /\ ctorArgs[1].direction = Some("high")
    /\ ctorArgs[1].requests = <<3, 0, 2>>
    /\ ctorArgs[1].initialPosition = 1
    /\ visit[1] = <<1, 3, 0, 2>>

RECURSIVE RemainingBefore(_, _, _)
\* The requests not yet visited when entry k of the sequence is chosen: the
\* requests in input order, less one occurrence of each of entries 2..k-1.
RemainingBefore(requests, sequence, k) ==
    IF k <= 2 THEN requests
    ELSE LET before == RemainingBefore(requests, sequence, k - 1)
         IN  IF Includes(before, sequence[k-1])
             THEN RemoveAt(before, IndexOf(before, sequence[k-1]))
             ELSE before

\* The first request of a non-empty list at minimum distance from pos.
FirstNearest(remaining, pos) ==
    remaining[CHOOSE i \in 1..Len(remaining) :
                  /\ \A j \in 1..Len(remaining) :
                        Abs(remaining[i] - pos) <= Abs(remaining[j] - pos)
                  /\ \A j \in 1..(i-1) :
                        Abs(remaining[j] - pos) > Abs(remaining[i] - pos)]

\* C13: SSTF.  Every entry after the first is a not-yet-visited request at
\* minimum absolute distance from the entry before it and, when several
\* remaining requests are at that distance, the one that comes first in the
\* remaining list (input order); the sequence ends exactly when no request
\* remains.
C13_NearestFirst ==
    Executed("sstf") =>
        /\ visit[1][1] = ctorArgs[1].initialPosition
        /\ Len(visit[1]) = Len(ctorArgs[1].requests) + 1
        /\ \A k \in 2..Len(visit[1]) :
              LET remaining == RemainingBefore(ctorArgs[1].requests, visit[1], k)
              IN  /\ Includes(remaining, visit[1][k])
                  /\ visit[1][k] = FirstNearest(remaining, visit[1][k-1])
        /\ RemainingBefore(ctorArgs[1].requests, visit[1], Len(visit[1]) + 1) = <<>>

\* C13 witness: SSTF has executed from track 2 on requests 3, 1, 0: tracks 3
\* and 1 are equidistant, 3 comes first in the list and is visited first.
C13_Witness ==
    /\ Executed("sstf")
    /\ ctorArgs[1].initialPosition = 2
    /\ ctorArgs[1].requests = <<3, 1, 0>>
    /\ visit[1] = <<2, 3, 1, 0>>

\* The requests of the object below / above its initial position, in
\* ascending and in descending order.
BelowAsc == SortBy(LessThan(ctorArgs[1].requests, ctorArgs[1].initialPosition), TRUE)
BelowDesc == SortBy(LessThan(ctorArgs[1].requests, ctorArgs[1].initialPosition), FALSE)
AboveAsc == SortBy(GreaterThan(ctorArgs[1].requests, ctorArgs[1].initialPosition), TRUE)
AboveDesc == SortBy(GreaterThan(ctorArgs[1].requests, ctorArgs[1].initialPosition), FALSE)

\* The hint the object travels by.
Hint == instance[1].direction

\* s followed by the boundary track when `when` holds and s does not end on it.
ThenBoundary(s, boundary, when) ==
    IF when /\ Last(s) # boundary THEN Append(s, boundary) ELSE s

Rising(s, from, to) == \A i \in from..(to-1) : s[i] <= s[i+1]
Falling(s, from, to) == \A i \in from..(to-1) : s[i] >= s[i+1]

\* The head changes its direction of travel at most once along s.
ReversesAtMostOnce(s) ==
    \E m \in 1..Len(s) :
        \/ Rising(s, 1, m) /\ Falling(s, m, Len(s))
        \/ Falling(s, 1, m) /\ Rising(s, m, Len(s))

\* C14: SCAN.  With hint 'high' from position p the sequence is p, the
\* requests above p ascending, maxTrack exactly when some request lies below
\* p and the last entry so far is not maxTrack, the requests below p
\* descending; with hint 'low' p, the requests below p descending, 0 exactly
\* when some request lies above p and the last entry so far is not 0, the
\* requests above p ascending.  The head reverses at most once.
C14_ScanShape ==
    Executed("scan") /\ NoDup(ctorArgs[1].requests) =>
        LET p == ctorArgs[1].initialPosition
        IN  /\ Hint = "high" =>
                  visit[1] = ThenBoundary(<<p>> \o AboveAsc, ctorArgs[1].maxTrack,
                                          Len(BelowDesc) > 0) \o BelowDesc
            /\ Hint = "low" =>
                  visit[1] = ThenBoundary(<<p>> \o BelowDesc, 0,
                                          Len(AboveAsc) > 0) \o AboveAsc
            /\ Hint \in {"high", "low"}
            /\ ReversesAtMostOnce(visit[1])

\* C14 witness: SCAN has executed with hint 'high' from track 1 on requests on
\* both sides, none of them maxTrack, and has travelled to maxTrack between
\* the two groups.
C14_Witness ==
    /\ Executed("scan")
    /\ ctorArgs[1].direction = Some("high")
    /\ ctorArgs[1].initialPosition = 1
    /\ ctorArgs[1].requests = <<0, 2, 1>>
    /\ visit[1] = <<1, 2, 3, 0>>

\* The moves of s against the hinted direction: falls for 'high', rises for
\* 'low'.
MovesAgainst(s, hint) ==
    {i \in 1..(Len(s)-1) : IF hint = "high" THEN s[i+1] < s[i] ELSE s[i+1] > s[i]}

\* Move i of s is the wrap jump of the hinted direction: from maxTrack to 0
\* for 'high', from 0 to maxTrack for 'low'.
IsWrap(s, i, hint, maxTrack) ==
    IF hint = "high" THEN s[i] = maxTrack /\ s[i+1] = 0
                     ELSE s[i] = 0 /\ s[i+1] = maxTrack

\* Every move of the visit sequence other than a single wrap jump between the
\* two boundaries goes in the hinted direction.
NeverReverses ==
    /\ Cardinality(MovesAgainst(visit[1], Hint)) <= 1
    /\ \A i \in MovesAgainst(visit[1], Hint) : IsWrap(visit[1], i, Hint, ctorArgs[1].maxTrack)

\* C-SCAN has executed with hint 'high' on distinct requests on both sides of
\* the initial position.
CscanHighBothSides ==
    /\ Executed("cscan")
    /\ NoDup(ctorArgs[1].requests)
    /\ Hint = "high"
    /\ Len(AboveAsc) > 0
    /\ Len(BelowAsc) > 0

\* C15 as stated: C-SCAN never reverses (every move other than the single
\* wrap jump goes in the hinted direction), and with hint 'high' and requests
\* on both sides of p the sequence is p, the requests above p ascending,
\* maxTrack, 0, the requests below p ascending.
C15_WrapLiteral ==
    /\ Executed("cscan") /\ NoDup(ctorArgs[1].requests) => NeverReverses
    /\ CscanHighBothSides =>
          visit[1] = (((<<ctorArgs[1].initialPosition>> \o AboveAsc)
                          \o <<ctorArgs[1].maxTrack>>) \o <<0>>) \o BelowAsc

\* C15 as amended: C-SCAN never reverses, and with hint 'high' and requests
\* on both sides of p the sequence is p, the requests above p ascending,
\* maxTrack unless the last of them is maxTrack itself, 0, the requests
\* below p ascending.
C15_Wrap ==
    /\ Executed("cscan") /\ NoDup(ctorArgs[1].requests) => NeverReverses
    /\ CscanHighBothSides =>
          visit[1] = (ThenBoundary(<<ctorArgs[1].initialPosition>> \o AboveAsc,
                                   ctorArgs[1].maxTrack, TRUE) \o <<0>>) \o BelowAsc

\* C15 witness: C-SCAN has executed with hint 'high' from track 1 on requests
\* 0, 2 and maxTrack: maxTrack is visited once, then the wrap to 0.
C15_Witness ==
    /\ CscanHighBothSides
    /\ ctorArgs[1].initialPosition = 1
    /\ ctorArgs[1].requests = <<0, 3, 2>>
    /\ ctorArgs[1].maxTrack = 3
    /\ visit[1] = <<1, 2, 3, 0, 0>>

\* C16: LOOK.  With hint 'high' from position p the sequence is p, the
\* requests above p ascending, then the requests below p descending; with
\* hint 'low' p, the requests below p descending, then the requests above p
\* ascending.  The head turns at the last request in the travel direction:
\* every entry after the first is a request, so 0 and maxTrack occur only as
\* requests.
C16_LookShape ==
    Executed("look") =>
        LET p == ctorArgs[1].initialPosition
        IN  /\ Hint = "high" => visit[1] = (<<p>> \o AboveAsc) \o BelowDesc
            /\ Hint = "low" => visit[1] = (<<p>> \o BelowDesc) \o AboveAsc
            /\ Hint \in {"high", "low"}
            /\ \A i \in 2..Len(visit[1]) : Includes(ctorArgs[1].requests, visit[1][i])
            /\ ReversesAtMostOnce(visit[1])

\* C16 witness: LOOK has executed with hint 'high' from track 1 on requests 0
\* and 2 of a disk whose last track is 3, and has turned at 2.
C16_Witness ==
    /\ Executed("look")
    /\ ctorArgs[1].direction = Some("high")
    /\ ctorArgs[1].initialPosition = 1
    /\ ctorArgs[1].requests = <<0, 2>>
    /\ ctorArgs[1].maxTrack = 3
    /\ visit[1] = <<1, 2, 0>>

\* C17: C-LOOK.  With hint 'high' from position p the sequence is p, the
\* requests above p ascending, then the requests below p ascending, that is
\* one jump to the lowest request and on upwards; with hint 'low' p, the
\* requests below p descending, then the requests above p descending.  No
\* boundary entry is emitted (every entry after the first is a request) and
\* every move except the one jump goes in the hinted direction.
C17_ClookShape ==
    Executed("clook") /\ NoDup(ctorArgs[1].requests) =>
        LET p == ctorArgs[1].initialPosition
        IN  /\ Hint = "high" => visit[1] = (<<p>> \o AboveAsc) \o BelowAsc
            /\ Hint = "low" => visit[1] = (<<p>> \o BelowDesc) \o AboveDesc
            /\ Hint \in {"high", "low"}
            /\ \A i \in 2..Len(visit[1]) : Includes(ctorArgs[1].requests, visit[1][i])
            /\ Cardinality(MovesAgainst(visit[1], Hint)) <= 1
            /\ \A i \in MovesAgainst(visit[1], Hint) :
                  visit[1][i+1] = IF Hint = "high" THEN BelowAsc[1] ELSE AboveDesc[1]

\* C17 witness: C-LOOK has executed with hint 'high' from track 2 on requests
\* 1, 3 and 0: after 3 it jumps to 0, the lowest request, and goes on to 1.
C17_Witness ==
    /\ Executed("clook")
    /\ ctorArgs[1].direction = Some("high")
    /\ ctorArgs[1].initialPosition = 2
    /\ ctorArgs[1].requests = <<1, 3, 0>>
    /\ visit[1] = <<2, 3, 0, 1>>

\* The sequence the class of the object returns when constructed on the same
\* position, disk and requests with the direction given.
VisitWith(direction) ==
    execute(ctorArgs[1].cls,
            NewInstance(ctorArgs[1].initialPosition, ctorArgs[1].maxTrack,
                        ctorArgs[1].requests, direction))

DirectionalPolicies == {"scan", "cscan", "look", "clook"}

\* C18: default direction.  SCAN, C-SCAN, LOOK and C-LOOK constructed without
\* a direction argument return exactly the sequence they return when
\* constructed with direction 'low', for every valid configuration.
C18_DefaultIsLow ==
    /\ policyStatus = "executed"
    /\ ctorArgs[1].cls \in DirectionalPolicies
    /\ ctorArgs[1].direction = None
    => visit[1] = VisitWith(Some("low"))

\* C18 witness: C-SCAN constructed without a direction has executed on
\* requests on both sides of its position, where 'high' gives another
\* sequence than 'low'.
C18_Witness ==
    /\ Executed("cscan")
    /\ ctorArgs[1].direction = None
    /\ ctorArgs[1].initialPosition = 1
    /\ ctorArgs[1].requests = <<2, 0>>
    /\ visit[1] = <<1, 0, 3, 2>>
    /\ VisitWith(Some("high")) # visit[1]

\* C19: the direction hint is irrelevant to FCFS and to SSTF: for every valid
\* configuration each returns the same visit sequence for hint 'low' and for
\* hint 'high'.
C19_HintIgnored ==
    /\ policyStatus = "executed"
    /\ ctorArgs[1].cls \in {"fcfs", "sstf"}
    => /\ visit[1] = VisitWith(Some("low"))
       /\ visit[1] = VisitWith(Some("high"))

\* C19 witness: SSTF has executed with hint 'low' on requests that a sweep
\* would serve in another order under 'high' than under 'low'.
C19_Witness ==
    /\ Executed("sstf")
    /\ ctorArgs[1].direction = Some("low")
    /\ ctorArgs[1].initialPosition = 2
    /\ ctorArgs[1].requests = <<0, 3>>
    /\ visit[1] = <<2, 3, 0>>
    /\ VisitWith(Some("high")) = <<2, 3, 0>>

\* The requests of the object in the order perm, a permutation of 1..n.
Permuted(perm) == [i \in 1..Len(ctorArgs[1].requests) |-> ctorArgs[1].requests[perm[i]]]

\* The sequence the class of the object returns on the same position, disk
\* and hint when the requests are supplied in the order perm.
VisitOfOrder(perm) ==
    execute(ctorArgs[1].cls,
            NewInstance(ctorArgs[1].initialPosition, ctorArgs[1].maxTrack,
                        Permuted(perm), ctorArgs[1].direction))

RequestOrders == Permutations(1..Len(ctorArgs[1].requests))

\* Sequences a and b of one length are equal, or at the first entry where
\* they differ both entries are at the same distance from the entry before.
DifferOnlyAtTie(a, b) ==
    \/ a = b
    \/ \E k \in 2..Len(a) :
          /\ \A i \in 1..(k-1) : a[i] = b[i]
          /\ a[k] # b[k]
          /\ Abs(a[k] - a[k-1]) = Abs(b[k] - b[k-1])

GenerateSequenceRan ==
    \/ call.op = "generateSequence"
    \/ call.op \in GenerateCalls /\ call.value = Some(TRUE)

\* Every record but the last names the head position of the record after it
\* as its next target, and the last record names none.
NextTargetsLinked(steps) ==
    /\ \A i \in 1..(Len(steps) - 1) : steps[i].nextTarget = Some(steps[i+1].headPosition)
    /\ steps[Len(steps)].nextTarget = None

\* C21: after generateSequence, for every record i of the timeline that is
\* not the last, nextTarget equals the headPosition of record i+1, and the
\* last record's nextTarget is null, record 0 and single-record timelines
\* included.
C21_NextTargetLinked ==
    GenerateSequenceRan => NextTargetsLinked(allSteps)

\* C22: in every record of every timeline pendingQueue and servicedQueue are
\* disjoint and their union is exactly the request set; record 0 has the
\* full request set pending and nothing serviced; from one record to the
\* next the serviced set never shrinks and grows by at most the one track
\* the head has just reached.
C22_PendingServicedPartition ==
    /\ \A i \in 1..Len(allSteps) :
          /\ Elems(allSteps[i].pendingQueue) \cap Elems(allSteps[i].servicedQueue) = {}
          /\ Elems(allSteps[i].pendingQueue) \cup Elems(allSteps[i].servicedQueue)
                = Elems(config.requestQueue)
          /\ NoDup(allSteps[i].pendingQueue \o allSteps[i].servicedQueue)
    /\ allSteps[1].pendingQueue = config.requestQueue
    /\ allSteps[1].servicedQueue = <<>>
    /\ \A i \in 1..(Len(allSteps) - 1) :
          /\ Elems(allSteps[i].servicedQueue) \subseteq Elems(allSteps[i+1].servicedQueue)
          /\ Elems(allSteps[i+1].servicedQueue) \ Elems(allSteps[i].servicedQueue)
                \subseteq {allSteps[i+1].headPosition}

\* C22 witness: a SCAN timeline from track 3 on requests 3 and 7 whose head
\* reaches track 0, which is no request and services nothing, and then
\* track 7, which it services.
C22_Witness ==
    /\ config.algorithm = "scan"
    /\ config.requestQueue = <<3, 7>>
    /\ Len(allSteps) = 3
    /\ allSteps[2].headPosition = 0
    /\ allSteps[2].servicedQueue = <<>>
    /\ allSteps[3].headPosition = 7
    /\ allSteps[3].servicedQueue = <<7>>
    /\ allSteps[3].pendingQueue = <<3>>

ExecutedOnSingle == policyStatus = "executed" /\ Len(ctorArgs[1].requests) = 1

\* The single request lies in the hinted direction from the initial position.
SingleAhead ==
    IF Hint = "high" THEN ctorArgs[1].requests[1] > ctorArgs[1].initialPosition
                     ELSE ctorArgs[1].requests[1] < ctorArgs[1].initialPosition

RunFromARequest ==
    /\ GenerateSequenceRan
    /\ ~call.coreThrew
    /\ validateParameters(config.requestQueue, config.initialHeadPosition, config.maxTrackNumber)
    /\ Includes(config.requestQueue, config.initialHeadPosition)

\* Record i (1-based, not the first) is where track moves from pending to
\* serviced.
ServicedAt(i, track) ==
    /\ Includes(allSteps[i-1].pendingQueue, track)
    /\ Includes(allSteps[i].servicedQueue, track)

\* C25: for each of the six policies and every valid configuration in which
\* the initial position is itself a request, the timeline contains a record
\* at which that request moves from pending to serviced, and that record has
\* seekDistance 0.
C25_InitialRequestServiced ==
    RunFromARequest =>
        \E i \in 2..Len(allSteps) :
            /\ ServicedAt(i, config.initialHeadPosition)
            /\ allSteps[i].seekDistance = 0

(***************************************************************************)
(* The textbook scenario: the form holds initial position 53, max track    *)
(* 199 and the requests 98,183,37,122,14,124,65,67; the user picks the     *)
(* algorithm and the direction and walks through the timeline.             *)
(***************************************************************************)
TextbookRequestText ==
    JoinComma(<< <<"9", "8">>, <<"1", "8", "3">>, <<"3", "7">>, <<"1", "2", "2">>,
                 <<"1", "4">>, <<"1", "2", "4">>, <<"6", "5">>, <<"6", "7">> >>)

TextbookForm(algorithm, direction) ==
    [algorithm |-> algorithm, initialHeadPosition |-> <<"5", "3">>,
     maxTrackNumber |-> <<"1", "9", "9">>, requestQueue |-> Some(TextbookRequestText),
     direction |-> direction]

InitTextbook ==
    /\ NoPolicy
    /\ \E algorithm \in Policies, direction \in DirectionNames :
          Loaded(TextbookForm(algorithm, direction))

NextTextbook ==
    \/ \E value \in Policies : HandleInputChange("algorithm", value)
    \/ \E value \in DirectionNames : HandleInputChange("direction", value)
    \/ SMNextStep
    \/ SMPreviousStep
    \/ \E stepIndex \in {0, Len(allSteps) - 1} : SMJumpToStep(stepIndex)

SpecTextbook == InitTextbook /\ [][NextTextbook]_vars

\* The head positions of the records of a timeline, in order.
HeadPositions(steps) == [i \in 1..Len(steps) |-> steps[i].headPosition]

\* The track serviced first along the timeline, None when none is.
FirstServiced(steps) ==
    IF \E i \in 1..Len(steps) : Len(steps[i].servicedQueue) > 0
    THEN Some(steps[CHOOSE i \in 1..Len(steps) :
                       /\ Len(steps[i].servicedQueue) > 0
                       /\ \A j \in 1..(i-1) : Len(steps[j].servicedQueue) = 0].servicedQueue[1])
    ELSE None

\* C26: in the textbook scenario the FCFS timeline visits 53, 98, 183, 37,
\* 122, 14, 124, 65, 67 and its final totalHeadMovement is 640; the first
\* request the SSTF timeline services is 65 and its final totalHeadMovement
\* is at most 640.
C26_TextbookScenario ==
    /\ config.initialHeadPosition = DefaultHeadPosition
    /\ config.maxTrackNumber = DefaultMaxTrack
    /\ config.requestQueue = DefaultRequestQueue
    /\ config.algorithm = "fcfs" =>
          /\ HeadPositions(allSteps) = <<DefaultHeadPosition>> \o DefaultRequestQueue
          /\ Last(allSteps).totalHeadMovement = 640
    /\ config.algorithm = "sstf" =>
          /\ FirstServiced(allSteps) = Some(65)
          /\ Last(allSteps).totalHeadMovement <= 640

\* C26 witness: the SSTF timeline of the textbook scenario has been walked to
\* its last record, where the head has moved 236 tracks in all.
C26_Witness ==
    /\ config.algorithm = "sstf"
    /\ config.requestQueue = DefaultRequestQueue
    /\ currentStepIndex = Len(allSteps) - 1
    /\ stats.totalHeadMovement = 236
    /\ HeadPositions(allSteps) = <<53, 65, 67, 37, 14, 98, 122, 124, 183>>

(***************************************************************************)
(* Request texts: the form holds a request text made of well-formed,       *)
(* malformed and out-of-range tokens; the user runs the simulation and     *)
(* steps through it.                                                       *)
(***************************************************************************)
\* Longest request text of this specification, in tokens.
MaxParseTokens == 3

ParseTokenTexts ==
    {<<"3">>, <<"7">>, <<"x">>, <<"3", "x">>, <<"1", "1">>, <<"-", "1">>, <<" ", "7">>}

ParseQueueTexts ==
    {Some(JoinComma(tokens)) : tokens \in UNION {[1..n -> ParseTokenTexts] : n \in 0..MaxParseTokens}}

ParseForm(text) ==
    [algorithm |-> "fcfs", initialHeadPosition |-> <<"3">>, maxTrackNumber |-> <<"1", "0">>,
     requestQueue |-> text, direction |-> "low"]

InitParse ==
    /\ NoPolicy
    /\ \E text \in ParseQueueTexts : Loaded(ParseForm(text))

NextParse ==
    \/ HandleRunSimulation
    \/ SMGenerateSequence
    \/ SMNextStep
    \/ SMPreviousStep

SpecParse == InitParse /\ [][NextParse]_vars

\* The text is an integer: optional white space, an optional sign, and then
\* digits only, at least one.
IsIntegerText(token) ==
    LET t == TrimLeft(token)
        body == IF Len(t) > 0 /\ t[1] \in {"-", "+"} THEN Tail(t) ELSE t
    IN  Len(body) > 0 /\ \A i \in 1..Len(body) : IsDigit(body[i])

\* The tokens of the request text of the form.
FormTokens == SplitComma(dom.requestQueue[1], <<>>)

\* The positions in the text of the tokens that are integers within
\* 0..maxTrack, and the value of the token at such a position.
Surviving ==
    {i \in 1..Len(FormTokens) :
        /\ IsIntegerText(FormTokens[i])
        /\ ParseInt(FormTokens[i])[1] >= 0
        /\ ParseInt(FormTokens[i])[1] <= config.maxTrackNumber}

FirstOccurrence(r) ==
    CHOOSE i \in Surviving :
        /\ ParseInt(FormTokens[i])[1] = r
        /\ \A j \in Surviving : ParseInt(FormTokens[j])[1] = r => i <= j

\* C27: the request array generateSequence hands to a policy contains only
\* integers r with 0 <= r <= maxTrack, contains no value twice, and holds the
\* values of the tokens that are integers in range, in the order of their
\* first occurrence in the input; the other tokens are dropped, and no error
\* is raised.
C27_RequestParsing ==
    call.instantiated =>
        /\ call.outcome = "returned"
        /\ \A i \in 1..Len(config.requestQueue) :
              config.requestQueue[i] >= 0 /\ config.requestQueue[i] <= config.maxTrackNumber
        /\ NoDup(config.requestQueue)
        /\ Elems(config.requestQueue) = {ParseInt(FormTokens[i])[1] : i \in Surviving}
        /\ \A i, j \in 1..Len(config.requestQueue) :
              i < j => FirstOccurrence(config.requestQueue[i]) < FirstOccurrence(config.requestQueue[j])

PartitionHelpers == {"LessThan", "LessOrEqual", "GreaterThan", "GreaterOrEqual"}

\* this.getRequests<helper>(pivot), sorted = true
getRequests(helper, self, pivot) ==
    CASE helper = "LessThan"       -> getRequestsLessThan(self, pivot)
      [] helper = "LessOrEqual"    -> getRequestsLessOrEqual(self, pivot)
      [] helper = "GreaterThan"    -> getRequestsGreaterThan(self, pivot)
      [] helper = "GreaterOrEqual" -> getRequestsGreaterOrEqual(self, pivot)

\* The helpers are those of AlgorithmBase: one subclass and one direction
\* stand for all.
InitHelpers ==
    /\ \E args \in CtorArgsSet :
          /\ args.cls = "fcfs"
          /\ args.direction = None
          /\ ctorArgs = Some(args)
    /\ instance = None
    /\ policyStatus = "new"
    /\ visit = None
    /\ visitAgain = None
    /\ partition = None
    /\ Loaded(FormP)

PolicyPartition(helper, pivot) ==
    /\ policyStatus = "constructed"
    /\ partition = None
    /\ partition' = Some([helper |-> helper, pivot |-> pivot,
                          result |-> getRequests(helper, instance[1], pivot)])
    /\ UNCHANGED <<ctorArgs, instance, policyStatus, visit, visitAgain, config, allSteps,
                   currentStepIndex, isRunning, stats, isInitialized, ctlVars, dom, call,
                   replayed>>

NextHelpers ==
    \/ PolicyConstruct
    \/ \E helper \in PartitionHelpers, pivot \in TracksP : PolicyPartition(helper, pivot)

SpecHelpers == InitHelpers /\ [][NextHelpers]_vars

\* The number of entries of s equal to v.
Count(s, v) == Cardinality({i \in 1..Len(s) : s[i] = v})

\* The requests the helper named selects for pivot p.
Selects(helper, r, p) ==
    CASE helper = "LessThan"       -> r < p
      [] helper = "LessOrEqual"    -> r <= p
      [] helper = "GreaterThan"    -> r > p
      [] helper = "GreaterOrEqual" -> r >= p

\* C29: for every request array and pivot p, getRequestsLessThan(p) returns
\* exactly the requests < p in descending order, getRequestsLessOrEqual(p)
\* exactly those <= p descending, getRequestsGreaterThan(p) exactly those > p
\* ascending, getRequestsGreaterOrEqual(p) exactly those >= p ascending:
\* nearest to p first in every case.
C29_PartitionHelpers ==
    partition # None =>
        LET helper == partition[1].helper
            p == partition[1].pivot
            result == partition[1].result
        IN  /\ \A v \in TracksP :
                  Count(result, v) = IF Selects(helper, v, p)
                                     THEN Count(instance[1].requests, v) ELSE 0
            /\ helper \in {"LessThan", "LessOrEqual"} => Falling(result, 1, Len(result))
            /\ helper \in {"GreaterThan", "GreaterOrEqual"} => Rising(result, 1, Len(result))
            /\ \A i \in 1..(Len(result) - 1) : Abs(result[i] - p) <= Abs(result[i+1] - p)

\* C29 witness: getRequestsLessOrEqual(2) has been called on requests 0, 3,
\* 2 supplied in that order and has returned 2, 0.
C29_Witness ==
    /\ partition # None
    /\ partition[1].helper = "LessOrEqual"
    /\ partition[1].pivot = 2
    /\ instance[1].requests = <<0, 3, 2>>
    /\ partition[1].result = <<2, 0>>

(***************************************************************************)
(* Playback: the form holds a head position and a max track that are       *)
(* valid; the user runs the simulation, plays and pauses it, steps through *)
(* it and resets the animation, while the browser runs the frame callbacks *)
(* the controller has requested.                                           *)
(***************************************************************************)
PlaybackForms ==
    {params \in ParamsSet :
        /\ params.initialHeadPosition = <<"3">>
        /\ params.maxTrackNumber = <<"1", "0">>}

InitPlayback ==
    /\ NoPolicy
    /\ \E params \in PlaybackForms : Loaded(params)

NextPlayback ==
    \/ HandleRunSimulation
    \/ TogglePlayPause
    \/ \E id \in frames, due \in BOOLEAN : AnimationLoop(id, due)
    \/ HandleStepForward
    \/ HandleStepBackward
    \/ HandleResetAnimation

SpecPlayback == InitPlayback /\ [][NextPlayback]_vars

\* C30: from any reachable playback state (playing, paused or finished),
\* handleResetAnimation leaves currentStepIndex = 0, isRunning = false, no
\* animation frame outstanding, the exposed statistics equal to those of
\* record 0, and the timeline itself unchanged.
C30_ResetAnimation ==
    [][call'.op = "handleResetAnimation" =>
          /\ currentStepIndex' = 0
          /\ isRunning' = FALSE
          /\ animationFrameId' = None
          /\ frames' = {}
          /\ stats' = StatsOf(allSteps[1])
          /\ allSteps' = allSteps]_vars

\* C30 witness: the animation of a timeline of three records has been reset:
\* the first record is current and named by the statistics, nothing is
\* running and no frame is outstanding.
C30_Witness ==
    /\ call.op = "handleResetAnimation"
    /\ Len(allSteps) = 3
    /\ currentStepIndex = 0
    /\ ~isRunning
    /\ frames = {}
    /\ stats.seeksCount = 0
    /\ stats.nextTarget = Some(allSteps[2].headPosition)

(***************************************************************************)
(* Stepping by one record.                                                 *)
(***************************************************************************)
\* The calls that step forward and the calls that step backward.
ForwardCalls == {"nextStep", "handleStepForward"}
BackwardCalls == {"previousStep", "handleStepBackward"}

\* The statistics previousStep() assigns when it is called in the state a
\* step leaves at an index above 0.
StatsAfterPreviousStep ==
    StatsOf(getCurrentStep(allSteps', currentStepIndex' - 1, config'.requestQueue,
                           config'.initialHeadPosition))

\* C31: nextStep() (and Step Forward) increases currentStepIndex by exactly 1
\* when the index is below the last record, nextStep() returning true, and
\* otherwise returns false and leaves the index and all statistics as they
\* were; previousStep() (and Step Backward) is the mirror at index 0; and
\* when not at the last record, nextStep() followed by previousStep()
\* restores the exact statistics held before.
C31_OneStep ==
    /\ [][call'.op \in ForwardCalls =>
            IF currentStepIndex < Len(allSteps) - 1
            THEN /\ currentStepIndex' = currentStepIndex + 1
                 /\ call'.op = "nextStep" => call'.value = Some(TRUE)
                 /\ StatsOfCurrentRecord'
                 \* what previousStep() would assign next is what was held
                 /\ StatsAfterPreviousStep = stats
            ELSE /\ currentStepIndex' = currentStepIndex
                 /\ stats' = stats
                 /\ call'.op = "nextStep" => call'.value = Some(FALSE)]_vars
    /\ [][call'.op \in BackwardCalls =>
            IF currentStepIndex > 0
            THEN /\ currentStepIndex' = currentStepIndex - 1
                 /\ call'.op = "previousStep" => call'.value = Some(TRUE)
                 /\ StatsOfCurrentRecord'
                 \* previousStep() right after a nextStep() that moved
                 /\ (call.op = "nextStep" /\ call.value = Some(TRUE)) =>
                        stats' = StatsOf(allSteps[currentStepIndex])
            ELSE /\ currentStepIndex' = currentStepIndex
                 /\ stats' = stats
                 /\ call'.op = "previousStep" => call'.value = Some(FALSE)]_vars

\* C31 witness: on a timeline of at least three records previousStep() has
\* moved and returned true, and the record it stepped back to, one past the
\* first, is the one whose statistics are exposed.
C31_Witness ==
    /\ call.op = "previousStep"
    /\ call.value = Some(TRUE)
    /\ Len(allSteps) >= 3
    /\ currentStepIndex = 1
    /\ stats = StatsOf(allSteps[2])
    /\ stats.seeksCount = 1

(***************************************************************************)
(* A session: the user runs the simulation, plays, pauses, steps, resets   *)
(* the animation, resets the algorithm, exports and edits the form in any  *)
(* order, while the browser runs the frame callbacks requested and resumes *)
(* the suspended exports.                                                  *)
(***************************************************************************)
\* The forms of a session: timelines of one record (SCAN on the one request
\* the head stands on), two and three records, and forms that do not run.
SessionForms ==
    {params \in PlaybackForms :
        /\ params.algorithm \in {"fcfs", "scan", "bogus"}
        /\ params.requestQueue \in {Some(<<"3">>), Some(<<"3", ",", "7">>), Some(<<"x">>)}}

InitSession ==
    /\ NoPolicy
    /\ \E params \in SessionForms : Loaded(params)

NextSession ==
    \/ HandleRunSimulation
    \/ TogglePlayPause
    \/ HandleStepForward
    \/ HandleStepBackward
    \/ HandleResetAnimation
    \/ HandleFullReset
    \/ HandleExport
    \/ \E field \in EditedFields : \E value \in FieldValues(field) : HandleInputChange(field, value)
    \/ \E id \in frames, due \in BOOLEAN : AnimationLoop(id, due)
    \/ \E i \in 1..Len(exporting) : ExportSettled(i)
    \/ \E i \in 1..Len(exporting), failed \in BOOLEAN : ExportFinished(i, failed)

SpecSession == InitSession /\ [][NextSession]_vars

\* toggleRunPause(false) is called: handleExport is invoked while running.
ForcePauseCalled == isRunning /\ call'.op = "handleExport" /\ call'.args = "invoked"

\* C32: from every reachable state, toggleRunPause(false) ends with the
\* simulation paused, that is state.isRunning = false and no animation frame
\* outstanding, and with currentStepIndex unchanged.
C32_ForcePause ==
    [][ForcePauseCalled =>
          /\ isRunning' = FALSE
          /\ frames' = {}
          /\ animationFrameId' = None
          /\ currentStepIndex' = currentStepIndex]_vars

(***************************************************************************)
(* An export left alone: the user acts only while no call of handleExport  *)
(* is suspended, so that between a click on Export PDF and the end of that *)
(* call only frame callbacks run.                                          *)
(***************************************************************************)
NoExport == exporting = <<>>

NextExport ==
    \/ NoExport /\ HandleRunSimulation
    \/ NoExport /\ TogglePlayPause
    \/ NoExport /\ HandleStepForward
    \/ NoExport /\ HandleStepBackward
    \/ NoExport /\ HandleExport
    \/ \E id \in frames, due \in BOOLEAN : AnimationLoop(id, due)
    \/ \E i \in 1..Len(exporting) : ExportSettled(i)
    \/ \E i \in 1..Len(exporting), failed \in BOOLEAN : ExportFinished(i, failed)

SpecExport == InitSession /\ [][NextExport]_vars

\* A call of handleExport completes.
ExportCompletes == call'.op = "handleExport" /\ call'.args = "finished"

\* C33: for every reachable state in which handleExport is invoked (also
\* while the animation is running, and with frame callbacks interleaving at
\* its await points but no other user event), when handleExport completes
\* currentStepIndex equals its value at the moment handleExport was invoked,
\* and the timeline is unchanged.
C33_ExportKeepsPosition ==
    /\ [][ExportCompletes => currentStepIndex' = exporting[1].invokedAt]_vars
    /\ [][exporting # <<>> \/ exporting' # <<>> => allSteps' = allSteps]_vars

(***************************************************************************)
(* LOOK against SCAN on the same object.                                   *)
(***************************************************************************)
\* The total head movement of the sequence the policy `name` returns for the
\* fields of the constructed object.
MovementOf(name) == calculateTotalMovement(execute(name, instance[1]))

\* C34: for every valid configuration and each direction hint, the total
\* head movement (the sum of the absolute differences of consecutive
\* entries) of LOOK's visit sequence is at most that of SCAN's visit
\* sequence on the same input.
C34_LookWithinScan ==
    /\ Executed("look") => calculateTotalMovement(visit[1]) <= MovementOf("scan")
    /\ Executed("scan") => MovementOf("look") <= calculateTotalMovement(visit[1])

\* C34 witness: LOOK has executed with hint 'high' from track 1 on requests 0
\* and 2 of a disk whose last track is 3 and has moved the head by 3, where
\* SCAN moves it by 5.
C34_Witness ==
    /\ Executed("look")
    /\ ctorArgs[1].direction = Some("high")
    /\ ctorArgs[1].initialPosition = 1
    /\ ctorArgs[1].requests = <<0, 2>>
    /\ ctorArgs[1].maxTrack = 3
    /\ calculateTotalMovement(visit[1]) = 3
    /\ MovementOf("scan") = 5

\* C35: for each of the six policies and every valid configuration with
\* distinct requests, no track value occurs more than once among the entries
\* of the visit sequence after the first, also when a request lies exactly on
\* track 0 or on maxTrack under SCAN or C-SCAN.
C35_NoTrackTwice == ExecutedOnDistinct => NoDup(VisitTail)

\* The call just made has built a run on a valid configuration.
RunOnValid ==
    /\ GenerateSequenceRan
    /\ validateParameters(config.requestQueue, config.initialHeadPosition, config.maxTrackNumber)

\* C36: for every policy and every valid configuration, the last record of
\* the timeline produced by generateSequence has an empty pendingQueue and a
\* servicedQueue containing every request.
C36_AllServicedAtEnd ==
    RunOnValid =>
        /\ Last(allSteps).pendingQueue = <<>>
        /\ \A i \in 1..Len(config.requestQueue) :
              Includes(Last(allSteps).servicedQueue, config.requestQueue[i])

\* C37: in every state reachable through any sequence of
\* initializeWithParams, resetSimulation, generateSequence (successful or
\* failing), nextStep, previousStep, jumpToStep with any integer argument and
\* getExportData, the timeline allSteps is non-empty and
\* 0 <= currentStepIndex <= allSteps.length - 1.
C37_IndexBounds ==
    /\ Len(allSteps) >= 1
    /\ 0 <= currentStepIndex
    /\ currentStepIndex <= Len(allSteps) - 1

\* C37 witness: jumpToStep has been called with an argument past the end of
\* a timeline of three records, and the index is on the last record.
C37_Witness ==
    /\ call.op = "jumpToStep"
    /\ Len(allSteps) = 3
    /\ call.args = 3
    /\ currentStepIndex = 2

\* C38: for every interleaving of user events (run, play/pause, step
\* forward, step backward, reset, full reset, export, input change) and
\* animation-frame callbacks, at most one requestAnimationFrame callback of
\* the controller is outstanding at any time.
C38_SingleAnimationLoop ==
    /\ Cardinality(frames) <= 1
    /\ \A id \in frames : animationFrameId = Some(id)

\* C38 witness: the user has clicked Play while a call of handleExport is
\* suspended; the playback runs and the one callback outstanding is the one
\* the controller holds.
C38_Witness ==
    /\ call.op = "toggleRunPause"
    /\ exporting # <<>>
    /\ isRunning
    /\ animationFrameId # None
    /\ frames = {animationFrameId[1]}

(***************************************************************************)
(* A playback left alone: the user acts only while nothing is playing and  *)
(* no callback is outstanding, and the browser keeps delivering the frame  *)
(* callbacks requested, again and again one whose timestamp is past the    *)
(* animation delay.                                                        *)
(***************************************************************************)
NothingPlaying == ~isRunning /\ frames = {}

\* A frame callback whose timestamp is past the animation delay.
DueFrame == \E id \in frames : AnimationLoop(id, TRUE)

NextAutoplay ==
    \/ NothingPlaying /\ HandleRunSimulation
    \/ NothingPlaying /\ TogglePlayPause
    \/ NothingPlaying /\ HandleStepForward
    \/ NothingPlaying /\ HandleStepBackward
    \/ \E id \in frames, due \in BOOLEAN : AnimationLoop(id, due)

SpecAutoplay == InitPlayback /\ [][NextAutoplay]_vars /\ WF_vars(DueFrame)

\* The playback has ended on the last record: nothing runs and no callback
\* is outstanding or held.
PlaybackEnded ==
    /\ currentStepIndex = Len(allSteps) - 1
    /\ ~isRunning
    /\ frames = {}
    /\ animationFrameId = None

\* C39: once playback is started on a generated timeline and no further user
\* event occurs, if animation frames keep being delivered with timestamps
\* that advance past the animation delay, then eventually currentStepIndex
\* equals the last index, isRunning becomes false and no further frame is
\* requested, and the index never exceeds the last record on the way.
C39_PlaybackTerminates ==
    /\ (isRunning \/ frames # {}) ~> PlaybackEnded
    /\ [](currentStepIndex <= Len(allSteps) - 1)
    /\ [][PlaybackEnded /\ call'.op = "animationLoop" => frames' = {}]_vars

\* C39 witness: the playback of a timeline of three records has ended: the
\* last thing that ran is a frame callback, the last record is current, and
\* the button reads Replay.
C39_Witness ==
    /\ call.op = "animationLoop"
    /\ Len(allSteps) = 3
    /\ PlaybackEnded
    /\ playPauseBtn = ReplayBtn

\* The handlers of the controller that drive the playback, the frame
\* callback among them.
PlaybackHandlers ==
    {"handleRunSimulation", "toggleRunPause", "handleStepForward", "handleStepBackward",
     "handleResetAnimation", "animationLoop"}

\* The timeline is one generateSimulation has generated from the form.
TimelineGenerated ==
    /\ validateParameters(config.requestQueue, config.initialHeadPosition, config.maxTrackNumber)
    /\ Registered(config.algorithm)

\* C40: after every controller handler completes (handleRunSimulation,
\* toggleRunPause, handleStepForward, handleStepBackward,
\* handleResetAnimation, and a frame callback), the button shows 'Pause'
\* (active) only if state.isRunning is true, for every generated timeline,
\* a timeline with a single record included.
C40_ButtonTellsTruth ==
    TimelineGenerated /\ call.op \in PlaybackHandlers =>
        (playPauseBtn.text = "Pause" \/ playPauseBtn.active => isRunning)

====
